---- MODULE Spec2Model ----
(***************************************************************************)
(* A model of the ledger completion engine (Ledger.Fill) and of the        *)
(* currency conversion query (Ledger.Convert) of cespedes/accounting.      *)
(*                                                                         *)
(* Pointers are modelled by what identifies the object they point to:      *)
(*   *Currency     <<ledger, name>>; Nil is the nil pointer, Anon an object*)
(*                 made by new(Currency) (it only ever carries amount 0)   *)
(*   *Account      <<ledger, n>>; TransferAccount is the package variable  *)
(*   *Transaction  an index into the heap `transaction`                    *)
(*   *Split        an index into the heap `split`                          *)
(*   *time.Time    [kind, ref]: nil, the address of a transaction's Time   *)
(*                 field (ref = the transaction), or an allocation of its  *)
(*                 own holding the instant ref                             *)
(* A Balance is a Go slice of Values: a sequence, whose order the code     *)
(* reads (balance[0], balance[1]).                                         *)
(* Amounts are int64 in the code; every amount of the model stays below    *)
(* 2^31 in magnitude, so no operation of the model wraps.                  *)
(***************************************************************************)
EXTENDS Integers, Sequences, FiniteSets, TLC

U == 100000000

\* Bounds of the model.
MaxAmount == 1      \* amounts of the journal lie in -MaxAmount..MaxAmount
MaxTx     == 1      \* transactions in the journal
MaxSplits == 2      \* postings in the journal, over all its transactions
MaxExtras == 2      \* in the journal, the parts of postings beyond an account and a
                    \* non-zero amount: own date, assertion, price, amount of zero
NumTimes  == 2      \* instants 1..NumTimes (0 is the zero time.Time)
NumCur    == 2      \* currency symbols 1..NumCur

MaxPrices == 2      \* price directives in a journal of prices
MaxCalls  == 2      \* calls of Convert by the caller

Amounts   == (0 - MaxAmount)..MaxAmount
Times     == 1..NumTimes
CurNames  == 1..NumCur
Ledgers   == {1, 2}

\* The arguments of Convert and the price directives: one more instant and one
\* more currency than the postings have, prices of a half and of one, an
\* amount of 3 (in units of 1/U).
ConvertTimes      == 1..(NumTimes + 1)
ConvertCurrencies == 1..(NumCur + 1)
ConvertAmounts    == {3 * MaxAmount}
PriceAmounts      == {U \div 2, U}
\* The calls of Convert a stack holds.  A call calls itself for the currency
\* of a price that its own currency and when select; calls in progress beyond
\* the number of currencies repeat a currency, and go on for ever.
MaxDepth          == NumCur + 3

Nil  == <<0, 0>>
Anon == <<0, 1>>
Cur(k, n) == IF n = 0 THEN Nil ELSE <<k, n>>

ZeroValue == [Amount |-> 0, Currency |-> Nil]
Val(a, c) == [Amount |-> a, Currency |-> c]

TransferAccount == <<0, 0>>
NoAccount       == <<0, 1>>
\* The accounts a journal declares, in declaration order, with their parents:
\* "P", "Q" and "P:X".  Postings go to Q and P:X, the first one of the journal to
\* P:X (Q and P:X differ only in the order in which Fill visits them).
ParsedParent  == <<0, 0, 1>>
SplitAccounts == {2, 3}
FirstAccounts == {3}
Acc(k, n) == IF n = 0 THEN NoAccount ELSE <<k, n>>
\* The two accounts that reading the line 'account Assets:Transfer account' of
\* an exported journal makes: 'Assets' and its child 'Transfer account'.
ExportedAssets   == <<3, 1>>
ExportedTransfer == <<3, 2>>
AccountPtrs ==
    {TransferAccount, ExportedAssets, ExportedTransfer}
        \cup {<<k, n>> : k \in Ledgers, n \in DOMAIN ParsedParent}

\* big.Int.Quo: division truncated toward zero (y # 0).
Quo(x, y) ==
    LET ax == IF x < 0 THEN 0 - x ELSE x
        ay == IF y < 0 THEN 0 - y ELSE y
        q  == ax \div ay
    IN  IF (x < 0) = (y < 0) THEN q ELSE 0 - q

\* big.Int.Div: Euclidean division (y > 0 here: the divisor is U).
Div(x, y) == x \div y

-----------------------------------------------------------------------------
(* Balance *)

RECURSIVE BalIndex(_, _, _)
BalIndex(bal, c, i) ==
    IF i > Len(bal) THEN 0
    ELSE IF bal[i].Currency = c THEN i
    ELSE BalIndex(bal, c, i + 1)

DropLast(s) == SubSeq(s, 1, Len(s) - 1)

\* Add that keeps an entry whose amount has become zero.
AddKeepZero(bal, v) ==
    IF v.Amount = 0 THEN bal
    ELSE LET i == BalIndex(bal, v.Currency, 1) IN
         IF i = 0 THEN Append(bal, v)
         ELSE [bal EXCEPT ![i].Amount = @ + v.Amount]

Add(bal, v) ==
    IF v.Amount = 0 THEN bal
    ELSE LET i == BalIndex(bal, v.Currency, 1) IN
         IF i = 0 THEN Append(bal, v)
         ELSE IF bal[i].Amount + v.Amount = 0
              THEN DropLast([bal EXCEPT ![i] = bal[Len(bal)]])
              ELSE [bal EXCEPT ![i].Amount = @ + v.Amount]

RECURSIVE AddAll(_, _, _)
AddAll(bal, b2, i) ==
    IF i > Len(b2) THEN bal ELSE AddAll(Add(bal, b2[i]), b2, i + 1)

Dup(bal) == AddAll(<<>>, bal, 1)

Sub(bal, v) == Add(bal, [v EXCEPT !.Amount = 0 - v.Amount])

AddBalance(bal, b2) == AddAll(bal, b2, 1)

RECURSIVE SubAll(_, _, _)
SubAll(bal, b2, i) ==
    IF i > Len(b2) THEN bal ELSE SubAll(Sub(bal, b2[i]), b2, i + 1)

SubBalance(bal, b2) == SubAll(bal, b2, 1)

\* The amount a balance holds in a currency (0 when absent).
RECURSIVE AmountIn(_, _)
AmountIn(bal, c) ==
    IF bal = <<>> THEN 0
    ELSE (IF bal[1].Currency = c THEN bal[1].Amount ELSE 0) + AmountIn(Tail(bal), c)

-----------------------------------------------------------------------------
(* sort.SliceStable on a slice s whose element x has the key k[x] *)

InsertStable(s, x, k) ==
    LET p == Cardinality({i \in 1..Len(s) : k[s[i]] <= k[x]})
    IN  SubSeq(s, 1, p) \o <<x>> \o SubSeq(s, p + 1, Len(s))

RECURSIVE SliceStable(_, _)
SliceStable(s, k) ==
    IF s = <<>> THEN <<>>
    ELSE InsertStable(SliceStable(DropLast(s), k), s[Len(s)], k)

-----------------------------------------------------------------------------
(* The journals: what a back-end hands to Fill *)

NoTime == [kind |-> "nil", ref |-> 0]
TxTime(t) == [kind |-> "tx", ref |-> t]
OwnTime(w) == [kind |-> "own", ref |-> w]

\* Values of the journal name their currency by its symbol (0: no value).
NoValue      == Val(0, 0)
ParsedValues == {NoValue} \cup {Val(a, n) : a \in Amounts, n \in CurNames}
SetValues    == ParsedValues \ {NoValue}

\* A posting: its account, its own date (0: none), its amount, its balance
\* assertion, its price (HasPrice).
Posting(a, w, v, as, hp, p) ==
    [Account |-> a, Time |-> w, Value |-> v, Assertion |-> as, HasPrice |-> hp, Price |-> p]

Extras(po) ==
    (IF po.Time # 0 THEN 1 ELSE 0) + (IF po.Assertion # NoValue THEN 1 ELSE 0)
        + (IF po.HasPrice THEN 1 ELSE 0)
        + (IF po.Value # NoValue /\ po.Value.Amount = 0 THEN 1 ELSE 0)
        + (IF po.HasPrice /\ po.Price.Amount = 0 THEN 1 ELSE 0)

AllPostings ==
    {Posting(a, w, v, as, FALSE, NoValue) :
        a \in SplitAccounts, w \in {0} \cup Times, v \in ParsedValues, as \in ParsedValues}
    \cup
    {Posting(a, w, v, as, TRUE, p) :
        a \in SplitAccounts, w \in {0} \cup Times, v \in SetValues, as \in ParsedValues,
        p \in SetValues}

-----------------------------------------------------------------------------
VARIABLES
    journal,        \* the journal read so far: transactions with their postings
    ledger,         \* ledger[k]: Accounts, Transactions, Prices, Assertions, SplitPrices
    account,        \* the Account objects: Parent, Children, Level, Splits
    transaction,    \* the Transaction objects: Time, Splits
    split,          \* the Split objects: Account, Transaction, Time, Value, Balance
    phase,          \* "read", then "first"; "refill": Fill called again on ledger 1;
                    \* "second": the same journal opened again as ledger 2
    cur,            \* the ledger Fill runs on
    pc,             \* where Fill stands
    finished, deadlock, iTransactions, iAccounts,   \* Fill's locals
    i,              \* Fill's account index in the account step (1-based)
    b,              \* Fill's running balance in the account step
    err,            \* what Fill returned: "" (nil) or the kind of error
    first,          \* what the caller saw of ledger 1 when its first Fill returned
    stack,          \* the calls of Convert in progress: v, currency, and where each stands
    when,           \* Convert's argument when, the same in all the calls in progress
    result,         \* what the call of Convert that returns has returned
    calls,          \* how many times the caller has called Convert
    asked,          \* the arguments of the last call of GetBalance (<<>>: none yet)
    gotBalance,     \* what that call returned
    lines,          \* the lines readJournal has read: kind, date, whether the rest parses
    lastTime,       \* readJournal's lastTime (0: the zero time.Time)
    lastLine,       \* readJournal's lastLine
    entries,        \* the prices and transactions readJournal has appended
    fatal,          \* readJournal has ended the process with log.Fatalf
    currencies,     \* l.ledger.Currencies: the currencies getValue has met, by name
    defaultCurrency, \* l.defaultCurrency (<<>>: nil)
    text,           \* the string of the last call of getValue (<<>>: none yet)
    lexValue,       \* the value that call returned
    lexErr,         \* the error that call returned ("": nil)
    rendered,       \* the value the string was written from, if it was (<<>>: not)
    lexed,          \* how many values of the journal getValue has been called on
    jSplits,        \* the Splits of the journal's last transaction, as readJournal appends them
    jSplitPrices,   \* l.ledger.SplitPrices of these splits, by their place in jSplits
    jAssertions,    \* l.ledger.Assertions of these splits, by their place in jSplits
    fs,             \* the files there are, by name (<<>>: no journal opened yet)
    files,          \* Scanner.files: filename and lineNum of each, the last on top
    emitted,        \* the lines Scanner.Line has returned: Filename, LineNum, Text
    scanErr,        \* the Err of what Scanner.Line returned last ("": nil)
    pending,        \* the file name of the include line readJournal is at (<<>>: none)
    drivers,        \* the map drivers: the driver registered under each name
    registered,     \* the last call of Register: name, driver, and whether it panicked
    held,           \* a Balance, empty at first, that only its methods have changed
    summed,         \* by currency: what was added to it less what was subtracted
    called,         \* the last method called on it, with its argument (<<>>: none)
    printed,        \* the last call of Value.String: the value, its currency, the string
    jAccounts,      \* l.ledger.Accounts as readJournal appends to it: the full names
    comments,       \* l.ledger.Comments: the comments attached, each with its entity
    commentErr,     \* the panic of readJournal at an indented comment ("": none)
    opened          \* what the driver's Open returned: a connection, an error (<<>>: not yet)

vars == <<journal, ledger, account, transaction, split, phase, cur, pc,
          finished, deadlock, iTransactions, iAccounts, i, b, err, first,
          stack, when, result, calls, asked, gotBalance,
          lines, lastTime, lastLine, entries, fatal,
          currencies, defaultCurrency, text, lexValue, lexErr, rendered, lexed,
          jSplits, jSplitPrices, jAssertions, fs, files, emitted, scanErr, pending,
          drivers, registered, held, summed, called, printed,
          jAccounts, comments, commentErr, opened>>

fillLocals == <<finished, deadlock, iTransactions, iAccounts, i, b>>
heap == <<ledger, account, transaction, split>>
convertLocals == <<stack, when, result, calls>>
getLocals == <<asked, gotBalance>>
\* What neither Fill nor Convert touches.
readLocals == <<lines, lastTime, lastLine, entries, fatal>>
lexLocals == <<currencies, defaultCurrency, text, lexValue, lexErr, rendered, lexed>>
postLocals == <<jSplits, jSplitPrices, jAssertions>>
scanLocals == <<fs, files, emitted, scanErr, pending>>
regLocals == <<drivers, registered>>
balLocals == <<held, summed, called>>
commentLocals == <<jAccounts, comments, commentErr>>
moreLocals == <<regLocals, balLocals, printed, commentLocals, opened>>
others == <<getLocals, readLocals, lexLocals, postLocals, scanLocals, moreLocals>>

Range(s) == {s[n] : n \in DOMAIN s}

EmptyLedger ==
    [Accounts |-> <<>>, Transactions |-> <<>>, Prices |-> <<>>,
     Assertions |-> <<>>, SplitPrices |-> <<>>]

NewAccount == [Parent |-> NoAccount, Children |-> <<>>, Level |-> 0, Splits |-> <<>>]

\* Assertions[s] of a Go map: the zero Value when s has no entry.
AssertionOf(l, s) ==
    IF s \in DOMAIN ledger[l].Assertions THEN ledger[l].Assertions[s] ELSE ZeroValue
HasSplitPrice(l, s) == s \in DOMAIN ledger[l].SplitPrices

\* *s.Time
TimeOf(tr, sp, s) ==
    IF sp[s].Time.kind = "tx" THEN tr[sp[s].Time.ref].Time ELSE sp[s].Time.ref

-----------------------------------------------------------------------------
(* Reading the journal *)

NumPostings(j) == LET RECURSIVE Cnt(_)
                      Cnt(n) == IF n = 0 THEN 0 ELSE Len(j[n].Splits) + Cnt(n - 1)
                  IN  Cnt(Len(j))
NumExtras(j) == LET RECURSIVE CntP(_, _)
                    CntP(ps, n) == IF n = 0 THEN 0 ELSE Extras(ps[n]) + CntP(ps, n - 1)
                    RECURSIVE CntT(_)
                    CntT(n) == IF n = 0 THEN 0
                               ELSE CntP(j[n].Splits, Len(j[n].Splits)) + CntT(n - 1)
                IN  CntT(Len(j))

\* Nothing is registered, and Register was never called; a Balance is empty.
InitMore ==
    /\ drivers = <<>>
    /\ registered = <<>>
    /\ held = <<>>
    /\ summed = [c \in {Anon, <<1, 1>>, <<1, 2>>} |-> 0]
    /\ called = <<>>
    /\ printed = <<>>
    /\ jAccounts = <<>>
    /\ comments = <<>>
    /\ commentErr = ""
    /\ opened = <<>>

Init ==
    /\ journal = <<>>
    /\ ledger = [k \in Ledgers |-> EmptyLedger]
    /\ account = [a \in AccountPtrs |-> NewAccount]
    /\ transaction = <<>>
    /\ split = <<>>
    /\ phase = "read"
    /\ cur = 1
    /\ pc = "read"
    /\ finished = FALSE
    /\ deadlock = FALSE
    /\ iTransactions = 0
    /\ iAccounts = <<>>
    /\ i = 0
    /\ b = <<>>
    /\ err = ""
    /\ first = <<>>
    /\ stack = <<>>
    /\ when = 0
    /\ result = [Value |-> ZeroValue, err |-> ""]
    /\ calls = 0
    /\ asked = <<>>
    /\ gotBalance = <<>>
    /\ lines = <<>>
    /\ lastTime = 0
    /\ lastLine = "lineNone"
    /\ entries = <<>>
    /\ fatal = FALSE
    /\ currencies = <<>>
    /\ defaultCurrency = <<>>
    /\ text = <<>>
    /\ lexValue = [Amount |-> [neg |-> FALSE, digits |-> <<>>], Currency |-> 0 - 1]
    /\ lexErr = ""
    /\ rendered = <<>>
    /\ lexed = 0
    /\ jSplits = <<>>
    /\ jSplitPrices = <<>>
    /\ jAssertions = <<>>
    /\ fs = <<>>
    /\ files = <<>>
    /\ emitted = <<>>
    /\ scanErr = ""
    /\ pending = <<>>
    /\ InitMore

\* A transaction line: a new transaction opens (its postings follow).
ReadTransaction ==
    /\ pc = "read"
    /\ Len(journal) < MaxTx
    /\ NumPostings(journal) < MaxSplits
    /\ journal # <<>> => journal[Len(journal)].Splits # <<>>
    /\ \E w \in Times : journal' = Append(journal, [Time |-> w, Splits |-> <<>>])
    /\ UNCHANGED <<heap, phase, cur, pc, fillLocals, err, first>>
    /\ UNCHANGED <<convertLocals, others>>

\* A posting line: a split is added to the last transaction.
ReadPosting ==
    /\ pc = "read"
    /\ journal # <<>>
    /\ NumPostings(journal) < MaxSplits
    /\ \E po \in AllPostings :
        /\ NumPostings(journal) = 0 => po.Account \in FirstAccounts
        /\ po.Time # journal[Len(journal)].Time
        /\ NumExtras(journal) + Extras(po) <= MaxExtras
        /\ journal' = [journal EXCEPT ![Len(journal)].Splits = Append(@, po)]
    /\ UNCHANGED <<heap, phase, cur, pc, fillLocals, err, first>>
    /\ UNCHANGED <<convertLocals, others>>

-----------------------------------------------------------------------------
(* The back-end's Open: the ledger k as parsed from the journal *)

\* The number of postings before transaction n of journal j.
RECURSIVE Before(_, _)
Before(j, n) == IF n <= 1 THEN 0 ELSE Len(j[n - 1].Splits) + Before(j, n - 1)

\* The postings of journal j in file order, each with its transaction.
RECURSIVE Lines(_, _)
Lines(j, n) ==
    IF n > Len(j) THEN <<>>
    ELSE [m \in 1..Len(j[n].Splits) |-> [tx |-> n, po |-> j[n].Splits[m]]] \o Lines(j, n + 1)

ParsedSplit(k, po) ==
    [Account     |-> Acc(k, po.Account),
     Transaction |-> 0,
     Time        |-> IF po.Time = 0 THEN NoTime ELSE OwnTime(po.Time),
     Value       |-> Val(po.Value.Amount, Cur(k, po.Value.Currency)),
     Balance     |-> <<>>]

ParsedTransactions(j, nsplit) ==
    [n \in 1..Len(j) |->
        [Time   |-> j[n].Time,
         Splits |-> [m \in 1..Len(j[n].Splits) |-> nsplit + Before(j, n) + m]]]

ParsedLedger(k, j, ntrans, nsplit) ==
    LET ls == Lines(j, 1) IN
    [Accounts     |-> [n \in DOMAIN ParsedParent |-> Acc(k, n)],
     Transactions |-> [n \in 1..Len(j) |-> ntrans + n],
     Prices       |-> <<>>,
     Assertions   |-> [s \in {nsplit + m : m \in {x \in DOMAIN ls : ls[x].po.Assertion # NoValue}}
                        |-> Val(ls[s - nsplit].po.Assertion.Amount,
                                Cur(k, ls[s - nsplit].po.Assertion.Currency))],
     SplitPrices  |-> [s \in {nsplit + m : m \in {x \in DOMAIN ls : ls[x].po.HasPrice}}
                        |-> Val(ls[s - nsplit].po.Price.Amount,
                                Cur(k, ls[s - nsplit].po.Price.Currency))]]

\* driver.Open for ledger k: the objects of the journal are allocated.
Parse(k) ==
    LET ls == Lines(journal, 1) IN
    /\ ledger' = [ledger EXCEPT ![k] = ParsedLedger(k, journal, Len(transaction), Len(split))]
    /\ account' = [a \in AccountPtrs |->
                      IF a # TransferAccount /\ a[1] = k
                      THEN [NewAccount EXCEPT !.Parent = Acc(k, ParsedParent[a[2]])]
                      ELSE account[a]]
    /\ transaction' = transaction \o ParsedTransactions(journal, Len(split))
    /\ split' = split \o [m \in DOMAIN ls |-> ParsedSplit(k, ls[m].po)]

\* accounting.Open, up to the call of Fill.
Open ==
    /\ pc = "read"
    /\ Parse(1)
    /\ phase' = "first"
    /\ pc' = "start"
    /\ UNCHANGED <<journal, cur, fillLocals, err, first>>
    /\ UNCHANGED <<convertLocals, others>>

-----------------------------------------------------------------------------
(* Fill: the account tree, the transfer splits of an earlier Fill, the sorts *)

ClearAccounts(ac, as) ==
    [a \in AccountPtrs |->
        IF a \in Range(as) THEN [ac[a] EXCEPT !.Splits = <<>>, !.Children = <<>>] ELSE ac[a]]

RECURSIVE LinkAccounts(_, _, _)
LinkAccounts(ac, as, n) ==
    IF n > Len(as) THEN ac
    ELSE LET a == as[n]
             p == ac[a].Parent
         IN  IF p = NoAccount THEN LinkAccounts(ac, as, n + 1)
             ELSE LinkAccounts([ac EXCEPT ![a].Level = ac[p].Level + 1,
                                          ![p].Children = Append(@, a)], as, n + 1)

RECURSIVE insertAccount(_, _, _)
RECURSIVE InsertChildren(_, _, _, _)
insertAccount(ac, where, a) == InsertChildren(ac, Append(where, a), ac[a].Children, 1)
InsertChildren(ac, where, ch, n) ==
    IF n > Len(ch) THEN where
    ELSE InsertChildren(ac, insertAccount(ac, where, ch[n]), ch, n + 1)

RECURSIVE NewAccounts(_, _, _, _)
NewAccounts(ac, where, as, n) ==
    IF n > Len(as) THEN where
    ELSE NewAccounts(ac, IF ac[as[n]].Parent = NoAccount
                         THEN insertAccount(ac, where, as[n]) ELSE where, as, n + 1)

\* The loop over the splits of one transaction that removes those of
\* TransferAccount: j runs over the indexes of the slice as it was (n0 long),
\* a removed split is overwritten by the last one, which is not looked at again.
RECURSIVE RemoveTransfer(_, _, _, _)
RemoveTransfer(sp, S, j, n0) ==
    IF j > n0 \/ j > Len(S) THEN [split |-> sp, Splits |-> S]
    ELSE LET sp1 == [sp EXCEPT ![S[j]].Balance = <<>>] IN
         IF sp[S[j]].Account = TransferAccount
         THEN RemoveTransfer(sp1, DropLast([S EXCEPT ![j] = S[Len(S)]]), j + 1, n0)
         ELSE RemoveTransfer(sp1, S, j + 1, n0)

RECURSIVE RemoveTransfers(_, _, _, _)
RemoveTransfers(tr, sp, ts, n) ==
    IF n > Len(ts) THEN [transaction |-> tr, split |-> sp]
    ELSE LET r == RemoveTransfer(sp, tr[ts[n]].Splits, 1, Len(tr[ts[n]].Splits))
         IN  RemoveTransfers([tr EXCEPT ![ts[n]].Splits = r.Splits], r.split, ts, n + 1)

SortTransactions(tr, ts) == SliceStable(ts, [t \in Range(ts) |-> tr[t].Time])

\* Each split gets its transaction, its time and its place in its account.
RECURSIVE LinkSplits(_, _, _, _, _, _)
LinkSplits(ac, sp, tr, ts, n, m) ==
    IF n > Len(ts) THEN [account |-> ac, split |-> sp]
    ELSE IF m > Len(tr[ts[n]].Splits) THEN LinkSplits(ac, sp, tr, ts, n + 1, 1)
    ELSE LET s == tr[ts[n]].Splits[m]
             sp1 == [sp EXCEPT ![s].Transaction = ts[n],
                               ![s].Time = IF @ = NoTime THEN TxTime(ts[n]) ELSE @]
         IN  LinkSplits([ac EXCEPT ![sp[s].Account].Splits = Append(@, s)],
                        sp1, tr, ts, n, m + 1)

SortSplits(tr, sp, S) == SliceStable(S, [s \in Range(S) |-> TimeOf(tr, sp, s)])

SortAccountSplits(ac, tr, sp, as) ==
    [a \in AccountPtrs |->
        IF a \in Range(as) THEN [ac[a] EXCEPT !.Splits = SortSplits(tr, sp, @)] ELSE ac[a]]

FillBegin ==
    /\ pc = "start"
    /\ LET l    == cur
           ac1  == LinkAccounts(ClearAccounts(account, ledger[l].Accounts),
                                ledger[l].Accounts, 1)
           as   == NewAccounts(ac1, <<>>, ledger[l].Accounts, 1)
           rm   == RemoveTransfers(transaction, split, ledger[l].Transactions, 1)
           ts   == SortTransactions(rm.transaction, ledger[l].Transactions)
           ln   == LinkSplits(ac1, rm.split, rm.transaction, ts, 1, 1)
       IN  /\ ledger' = [ledger EXCEPT ![l].Accounts = as, ![l].Transactions = ts]
           /\ transaction' = rm.transaction
           /\ split' = ln.split
           /\ account' = SortAccountSplits(ln.account, rm.transaction, ln.split, as)
           /\ iAccounts' = [n \in 1..Len(as) |-> 0]
    /\ finished' = FALSE
    /\ deadlock' = FALSE
    /\ iTransactions' = 0
    /\ i' = 0
    /\ b' = <<>>
    /\ pc' = "loop"
    /\ UNCHANGED <<journal, phase, cur, err, first>>
    /\ UNCHANGED <<convertLocals, others>>

-----------------------------------------------------------------------------
(* Fill: the fixed-point loop *)

\* for !finished && !deadlock { finished = true; deadlock = true
LoopEnter ==
    /\ pc = "loop"
    /\ ~finished /\ ~deadlock
    /\ finished' = TRUE
    /\ deadlock' = TRUE
    /\ pc' = "trans"
    /\ UNCHANGED <<journal, heap, phase, cur, iTransactions, iAccounts, i, b, err, first>>
    /\ UNCHANGED <<convertLocals, others>>

\* The loop over the splits of a transaction: it stops at a split without value
\* that has an assertion ("goto"), or at a second split without value ("two").
RECURSIVE ScanSplits(_, _, _, _, _)
ScanSplits(l, S, n, unbalancedSplit, balance) ==
    IF n > Len(S) THEN [exit |-> "end", unbalancedSplit |-> unbalancedSplit, balance |-> balance]
    ELSE LET s == S[n] IN
         IF split[s].Value.Currency = Nil /\ AssertionOf(l, s) # ZeroValue
         THEN [exit |-> "goto", unbalancedSplit |-> unbalancedSplit, balance |-> balance]
         ELSE IF split[s].Value.Currency = Nil
         THEN IF unbalancedSplit # 0
              THEN [exit |-> "two", unbalancedSplit |-> unbalancedSplit, balance |-> balance]
              ELSE ScanSplits(l, S, n + 1, s, balance)
         ELSE ScanSplits(l, S, n + 1, unbalancedSplit,
                         Add(balance, IF HasSplitPrice(l, s)
                                      THEN ledger[l].SplitPrices[s] ELSE split[s].Value))

\* Both prices from the first currency to the second.
AutomaticPricesOneWay(time, balance) ==
    <<[Time |-> time, Currency |-> balance[1].Currency,
       Value |-> Val(Quo((0 - U) * balance[2].Amount, balance[1].Amount), balance[2].Currency),
       Comment |-> "automatic"],
      [Time |-> time, Currency |-> balance[1].Currency,
       Value |-> Val(Quo((0 - U) * balance[2].Amount, balance[1].Amount), balance[2].Currency),
       Comment |-> "automatic"]>>

\* The two automatic prices of a transaction left with two currencies.
AutomaticPrices(time, balance) ==
    <<[Time |-> time, Currency |-> balance[1].Currency,
       Value |-> Val(Quo((0 - U) * balance[2].Amount, balance[1].Amount), balance[2].Currency),
       Comment |-> "automatic"],
      [Time |-> time, Currency |-> balance[2].Currency,
       Value |-> Val(Quo((0 - U) * balance[1].Amount, balance[2].Amount), balance[1].Currency),
       Comment |-> "automatic"]>>

\* for i := ...; i < len(l.Accounts); ... { var b Balance; if iAccounts[i] > 0 { b = ... }
\* The account step goes to account n, or, past the last account, the loop goes round.
EnterAccount(n) ==
    LET as == ledger[cur].Accounts IN
    IF n > Len(as)
    THEN /\ pc' = "loop"
         /\ i' = n
         /\ b' = b
    ELSE /\ pc' = "split"
         /\ i' = n
         /\ b' = IF iAccounts[n] > 0
                 THEN Dup(split[account[as[n]].Splits[iAccounts[n]]].Balance)
                 ELSE <<>>

\* The inferred value without the change of sign.
InferredValueSameSign(balance) == Val(balance[1].Amount, balance[1].Currency)

\* unbalancedSplit.Value = balance[0]; unbalancedSplit.Value.Amount = -...Amount
InferredValue(balance) == Val(0 - balance[1].Amount, balance[1].Currency)

Return(e) ==
    /\ pc' = "returned"
    /\ err' = e

\* deadlock = false; continue
Advance ==
    /\ deadlock' = FALSE
    /\ iTransactions' = iTransactions + 1

\* One turn of the loop over the transactions, from the transaction cursor.
TransactionStep ==
    /\ pc = "trans"
    /\ LET l == cur IN
       IF iTransactions >= Len(ledger[l].Transactions)
       THEN /\ EnterAccount(1)
            /\ UNCHANGED <<heap, finished, deadlock, iTransactions, err>>
       ELSE LET t  == ledger[l].Transactions[iTransactions + 1]
                r  == ScanSplits(l, transaction[t].Splits, 1, 0, <<>>)
                u  == r.unbalancedSplit
                bl == r.balance
            IN  /\ finished' = FALSE
                /\ CASE r.exit = "goto" ->
                          /\ EnterAccount(1)
                          /\ UNCHANGED <<heap, deadlock, iTransactions, err>>
                     [] r.exit = "two" ->
                          /\ Return("more than one posting without amount")
                          /\ UNCHANGED <<heap, deadlock, iTransactions, i, b>>
                     [] r.exit = "end" /\ Len(bl) = 0 ->
                          /\ split' = IF u # 0 THEN [split EXCEPT ![u].Value.Currency = Anon]
                                      ELSE split
                          /\ Advance
                          /\ UNCHANGED <<ledger, account, transaction, pc, i, b, err>>
                     [] r.exit = "end" /\ u # 0 /\ Len(bl) = 1 ->
                          /\ split' = [split EXCEPT ![u].Value = InferredValue(bl)]
                          /\ Advance
                          /\ UNCHANGED <<ledger, account, transaction, pc, i, b, err>>
                     [] r.exit = "end" /\ u # 0 /\ Len(bl) > 1 ->
                          /\ Return("two or more currencies in transaction")
                          /\ UNCHANGED <<heap, deadlock, iTransactions, i, b>>
                     [] r.exit = "end" /\ u = 0 /\ Len(bl) = 1 ->
                          /\ Return("could not balance transaction")
                          /\ UNCHANGED <<heap, deadlock, iTransactions, i, b>>
                     [] r.exit = "end" /\ u = 0 /\ Len(bl) = 2 ->
                          /\ ledger' = [ledger EXCEPT ![l].Prices =
                                            @ \o AutomaticPrices(transaction[t].Time, bl)]
                          /\ Advance
                          /\ UNCHANGED <<account, transaction, split, pc, i, b, err>>
                     [] r.exit = "end" /\ u = 0 /\ Len(bl) > 2 ->
                          /\ Return("3 or more currencies")
                          /\ UNCHANGED <<heap, deadlock, iTransactions, i, b>>
    /\ UNCHANGED <<journal, phase, cur, iAccounts, first>>
    /\ UNCHANGED <<convertLocals, others>>

\* The assertion step without s.Balance.Add(s.Value): the inferred value is
\* added to the running balance only.
CheckAssertionKeepsBalance(val, bb, bal, a0) ==
    LET st == IF a0.Amount = 0 /\ Len(bb) = 0
              THEN [Value |-> val, b |-> bb, Balance |-> bal, a |-> ZeroValue]
              ELSE IF val = ZeroValue /\ Len(bb) = 0
              THEN [Value |-> a0, b |-> Add(bb, a0), Balance |-> bal, a |-> ZeroValue]
              ELSE [Value |-> val, b |-> bb, Balance |-> bal, a |-> a0]
        n  == BalIndex(st.b, st.a.Currency, 1)
    IN  IF n = 0
        THEN [Value |-> st.Value, b |-> st.b, Balance |-> st.Balance, wrong |-> st.a # ZeroValue]
        ELSE IF st.Value = ZeroValue
        THEN LET nv == Val(st.a.Amount - st.b[n].Amount, st.a.Currency)
             IN  [Value |-> nv, b |-> Add(st.b, nv), Balance |-> st.Balance, wrong |-> FALSE]
        ELSE [Value |-> st.Value, b |-> st.b, Balance |-> st.Balance,
              wrong |-> st.b[n].Amount # st.a.Amount]

\* The assertion step without the comparison of the balance with the asserted
\* amount.
CheckAssertionUnchecked(val, bb, bal, a0) ==
    LET st == IF a0.Amount = 0 /\ Len(bb) = 0
              THEN [Value |-> val, b |-> bb, Balance |-> bal, a |-> ZeroValue]
              ELSE IF val = ZeroValue /\ Len(bb) = 0
              THEN [Value |-> a0, b |-> Add(bb, a0), Balance |-> Add(bal, a0), a |-> ZeroValue]
              ELSE [Value |-> val, b |-> bb, Balance |-> bal, a |-> a0]
        n  == BalIndex(st.b, st.a.Currency, 1)
    IN  IF n = 0
        THEN [Value |-> st.Value, b |-> st.b, Balance |-> st.Balance, wrong |-> st.a # ZeroValue]
        ELSE IF st.Value = ZeroValue
        THEN LET nv == Val(st.a.Amount - st.b[n].Amount, st.a.Currency)
             IN  [Value |-> nv, b |-> Add(st.b, nv), Balance |-> Add(st.Balance, nv),
                  wrong |-> FALSE]
        ELSE [Value |-> st.Value, b |-> st.b, Balance |-> st.Balance, wrong |-> FALSE]

\* The assertion a0 on a split of value val, where bb is the running balance and
\* bal the split's balance, both with val added: the split's value (inferred when
\* it had none), the two balances, and whether the assertion is wrong.
CheckAssertion(val, bb, bal, a0) ==
    LET st == IF a0.Amount = 0 /\ Len(bb) = 0
              THEN [Value |-> val, b |-> bb, Balance |-> bal, a |-> ZeroValue]
              ELSE IF val = ZeroValue /\ Len(bb) = 0
              THEN [Value |-> a0, b |-> Add(bb, a0), Balance |-> Add(bal, a0), a |-> ZeroValue]
              ELSE [Value |-> val, b |-> bb, Balance |-> bal, a |-> a0]
        n  == BalIndex(st.b, st.a.Currency, 1)
    IN  IF n = 0
        THEN [Value |-> st.Value, b |-> st.b, Balance |-> st.Balance, wrong |-> st.a # ZeroValue]
        ELSE IF st.Value = ZeroValue
        THEN LET nv == Val(st.a.Amount - st.b[n].Amount, st.a.Currency)
             IN  [Value |-> nv, b |-> Add(st.b, nv), Balance |-> Add(st.Balance, nv),
                  wrong |-> FALSE]
        ELSE [Value |-> st.Value, b |-> st.b, Balance |-> st.Balance,
              wrong |-> st.b[n].Amount # st.a.Amount]

\* The loop over the splits without its increment.
AdvanceSplitStays(ia, n) == ia

\* iAccounts[i]++
AdvanceSplit(ia, n) == [ia EXCEPT ![n] = @ + 1]

\* One turn of the loop over the splits of account i, from its split cursor.
SplitStep ==
    /\ pc = "split"
    /\ LET l == cur
           S == account[ledger[l].Accounts[i]].Splits
       IN  IF iAccounts[i] >= Len(S)
           THEN /\ EnterAccount(i + 1)
                /\ UNCHANGED <<split, finished, deadlock, iAccounts, err>>
           ELSE LET s == S[iAccounts[i] + 1] IN
                /\ finished' = FALSE
                /\ IF split[s].Value = ZeroValue /\ AssertionOf(l, s) = ZeroValue
                   THEN /\ EnterAccount(i + 1)
                        /\ UNCHANGED <<split, deadlock, iAccounts, err>>
                   ELSE LET b1 == Add(b, split[s].Value)
                            r  == IF AssertionOf(l, s) # ZeroValue
                                  THEN CheckAssertion(split[s].Value, b1, Dup(b1),
                                                      AssertionOf(l, s))
                                  ELSE [Value |-> split[s].Value, b |-> b1,
                                        Balance |-> Dup(b1), wrong |-> FALSE]
                        IN  /\ deadlock' = FALSE
                            /\ split' = [split EXCEPT ![s].Value = r.Value,
                                                      ![s].Balance = r.Balance]
                            /\ b' = r.b
                            /\ IF r.wrong
                               THEN /\ Return("wrong assertion")
                                    /\ UNCHANGED <<iAccounts, i>>
                               ELSE /\ iAccounts' = AdvanceSplit(iAccounts, i)
                                    /\ UNCHANGED <<pc, i, err>>
    /\ UNCHANGED <<journal, ledger, account, transaction, phase, cur, iTransactions, first>>
    /\ UNCHANGED <<convertLocals, others>>

\* The end of the loop, and the deadlock error, which names the transaction at
\* the cursor: l.Transactions[iTransactions].
LoopExit ==
    /\ pc = "loop"
    /\ finished \/ deadlock
    /\ IF ~finished /\ deadlock
       THEN IF iTransactions < Len(ledger[cur].Transactions)
            THEN Return("deadlock")
            ELSE /\ pc' = "panic"
                 /\ err' = "index out of range"
       ELSE /\ pc' = "prices"
            /\ err' = err
    /\ UNCHANGED <<journal, heap, phase, cur, fillLocals, first>>
    /\ UNCHANGED <<convertLocals, others>>

-----------------------------------------------------------------------------
(* Fill: the prices of the split prices, the sort of Prices, the transfer splits *)

\* The orders in which a range over a Go map may visit its keys.
Orders(K) ==
    {o \in [1..Cardinality(K) -> K] : \A x, y \in 1..Cardinality(K) : x # y => o[x] # o[y]}

\* The two prices of the price v of split s.
SplitPricePair(tr, sp, s, v) ==
    <<[Time |-> TimeOf(tr, sp, s), Currency |-> sp[s].Value.Currency,
       Value |-> Val(Quo(U * v.Amount, sp[s].Value.Amount), v.Currency),
       Comment |-> "automatic"],
      [Time |-> TimeOf(tr, sp, s), Currency |-> v.Currency,
       Value |-> Val(Quo(U * sp[s].Value.Amount, v.Amount), sp[s].Value.Currency),
       Comment |-> "automatic"]>>

RECURSIVE SplitPricesIn(_, _, _)
SplitPricesIn(l, o, n) ==
    IF n > Len(o) THEN <<>>
    ELSE SplitPricePair(transaction, split, o[n], ledger[l].SplitPrices[o[n]])
             \o SplitPricesIn(l, o, n + 1)

SortPrices(ps) ==
    LET order == SliceStable([n \in 1..Len(ps) |-> n], [n \in 1..Len(ps) |-> ps[n].Time])
    IN  [n \in 1..Len(ps) |-> ps[order[n]]]

\* for s, v := range l.SplitPrices { ... }; sort.SliceStable(l.Prices, ...)
\* big.Int.Quo panics when the divisor is zero.
AddSplitPrices ==
    /\ pc = "prices"
    /\ LET l == cur
           K == DOMAIN ledger[l].SplitPrices
       IN  IF \E s \in K : split[s].Value.Amount = 0 \/ ledger[l].SplitPrices[s].Amount = 0
           THEN /\ pc' = "panic"
                /\ err' = "division by zero"
                /\ ledger' = ledger
           ELSE /\ \E o \in Orders(K) :
                     ledger' = [ledger EXCEPT ![l].Prices =
                                    SortPrices(@ \o SplitPricesIn(l, o, 1))]
                /\ pc' = "transfer"
                /\ err' = err
    /\ UNCHANGED <<journal, account, transaction, split, phase, cur, fillLocals, first>>
    /\ UNCHANGED <<convertLocals, others>>

\* The two splits of TransferAccount, the first without the change of sign.
TransferPairSameSign(sp, s, t) ==
    <<[Account |-> TransferAccount, Transaction |-> t,
       Time |-> sp[s].Time,
       Value |-> Val(sp[s].Value.Amount, sp[s].Value.Currency),
       Balance |-> <<>>],
      [Account |-> TransferAccount, Transaction |-> t,
       Time |-> TxTime(t),
       Value |-> Val(sp[s].Value.Amount, sp[s].Value.Currency),
       Balance |-> <<>>]>>

\* split1 and split2: the two splits of TransferAccount for split s of
\* transaction t.
TransferPair(sp, s, t) ==
    <<[Account |-> TransferAccount, Transaction |-> t,
       Time |-> sp[s].Time,
       Value |-> Val(0 - sp[s].Value.Amount, sp[s].Value.Currency),
       Balance |-> <<>>],
      [Account |-> TransferAccount, Transaction |-> t,
       Time |-> TxTime(t),
       Value |-> Val(sp[s].Value.Amount, sp[s].Value.Currency),
       Balance |-> <<>>]>>

\* The splits of transaction t, from the n-th on, whose time is not the
\* transaction's: each gets two splits of TransferAccount, appended to the
\* transaction and to the account.
RECURSIVE TransferSplits(_, _, _, _, _, _)
TransferSplits(ac, tr, sp, t, n, n0) ==
    IF n > n0 THEN [account |-> ac, transaction |-> tr, split |-> sp]
    ELSE LET s == tr[t].Splits[n] IN
         IF sp[s].Time # TxTime(t)
         THEN LET p1 == Len(sp) + 1
                  p2 == Len(sp) + 2
              IN  TransferSplits([ac EXCEPT ![TransferAccount].Splits = @ \o <<p1, p2>>],
                                 [tr EXCEPT ![t].Splits = @ \o <<p1, p2>>],
                                 sp \o TransferPair(sp, s, t), t, n + 1, n0)
         ELSE TransferSplits(ac, tr, sp, t, n + 1, n0)

RECURSIVE AllTransferSplits(_, _, _, _, _)
AllTransferSplits(ac, tr, sp, ts, n) ==
    IF n > Len(ts) THEN [account |-> ac, transaction |-> tr, split |-> sp]
    ELSE LET r == TransferSplits(ac, tr, sp, ts[n], 1, Len(tr[ts[n]].Splits))
         IN  AllTransferSplits(r.account, r.transaction, r.split, ts, n + 1)

\* var b Balance; for _, s := range TransferAccount.Splits { b.Add(s.Value); s.Balance = b.Dup() }
RECURSIVE RunningBalance(_, _, _, _)
RunningBalance(sp, S, n, bal) ==
    IF n > Len(S) THEN sp
    ELSE LET b1 == Add(bal, sp[S[n]].Value)
         IN  RunningBalance([sp EXCEPT ![S[n]].Balance = Dup(b1)], S, n + 1, b1)

FillEnd ==
    /\ pc = "transfer"
    /\ LET l  == cur
           as == IF TransferAccount \in Range(ledger[l].Accounts) THEN ledger[l].Accounts
                 ELSE Append(ledger[l].Accounts, TransferAccount)
           r  == AllTransferSplits(account, transaction, split, ledger[l].Transactions, 1)
           S  == SortSplits(r.transaction, r.split, r.account[TransferAccount].Splits)
       IN  /\ ledger' = [ledger EXCEPT ![l].Accounts = as]
           /\ transaction' = r.transaction
           /\ account' = [r.account EXCEPT ![TransferAccount].Splits = S]
           /\ split' = RunningBalance(r.split, S, 1, <<>>)
    /\ Return("")
    /\ UNCHANGED <<journal, phase, cur, fillLocals, first>>
    /\ UNCHANGED <<convertLocals, others>>

-----------------------------------------------------------------------------
(* What follows a first Fill *)

CurName(c) == c[2]
ValueView(v) == [Amount |-> v.Amount, Currency |-> CurName(v.Currency)]
BalanceView(bal) == [n \in 1..Len(bal) |-> ValueView(bal[n])]

\* What a caller sees of a ledger, named without its pointers: its prices, the
\* number of splits of its transactions, the splits of TransferAccount.
PricesView(l) ==
    [n \in 1..Len(ledger[l].Prices) |->
        [Time |-> ledger[l].Prices[n].Time,
         Currency |-> CurName(ledger[l].Prices[n].Currency),
         Value |-> ValueView(ledger[l].Prices[n].Value)]]
SplitCounts(l) ==
    [n \in 1..Len(ledger[l].Transactions) |-> Len(transaction[ledger[l].Transactions[n]].Splits)]
TransferView ==
    [n \in 1..Len(account[TransferAccount].Splits) |->
        LET s == account[TransferAccount].Splits[n] IN
        [Time |-> TimeOf(transaction, split, s), Value |-> ValueView(split[s].Value),
         Balance |-> BalanceView(split[s].Balance)]]
Seen(l) == [Prices |-> PricesView(l), Splits |-> SplitCounts(l), Transfer |-> TransferView]

\* Fill is called again on the ledger it has completed.
Refill ==
    /\ pc = "returned" /\ err = "" /\ phase = "first"
    /\ phase' = "refill"
    /\ first' = Seen(1)
    /\ pc' = "start"
    /\ UNCHANGED <<journal, heap, cur, fillLocals, err>>
    /\ UNCHANGED <<convertLocals, others>>

\* The same journal is opened again, in the same process, as a second ledger.
OpenSecond ==
    /\ pc = "returned" /\ err = "" /\ phase = "first"
    /\ Parse(2)
    /\ phase' = "second"
    /\ first' = Seen(1)
    /\ cur' = 2
    /\ pc' = "start"
    /\ UNCHANGED <<journal, fillLocals, err>>
    /\ UNCHANGED <<convertLocals, others>>

-----------------------------------------------------------------------------
(* Export, and the journal it writes read again *)

\* The splits of the transactions ts, in the order Export writes them.
RECURSIVE ExportedSplits(_, _, _)
ExportedSplits(tr, ts, n) ==
    IF n > Len(ts) THEN <<>>
    ELSE [m \in 1..Len(tr[ts[n]].Splits) |-> [tx |-> n, s |-> tr[ts[n]].Splits[m]]]
             \o ExportedSplits(tr, ts, n + 1)

\* How many splits Export writes before those of the n-th transaction.
RECURSIVE WrittenBefore(_, _, _)
WrittenBefore(tr, ts, n) ==
    IF n <= 1 THEN 0 ELSE Len(tr[ts[n - 1]].Splits) + WrittenBefore(tr, ts, n - 1)

\* getAccount on the full name Export has written: the account of that name
\* in the second ledger. 'Assets:Transfer account', the name of
\* TransferAccount, is the name of an account of the journal like any other.
ReadAccount(a) == IF a = TransferAccount THEN ExportedTransfer ELSE <<2, a[2]>>

\* The lines 'account ...' of the accounts as, read one by one: getAccount
\* makes the parent 'Assets' before 'Assets:Transfer account'.
RECURSIVE ReadAccounts(_, _)
ReadAccounts(as, n) ==
    IF n > Len(as) THEN <<>>
    ELSE (IF as[n] = TransferAccount THEN <<ExportedAssets, ExportedTransfer>>
          ELSE <<ReadAccount(as[n])>>) \o ReadAccounts(as, n + 1)

\* A currency is written by its name and looked up by it; a value without
\* currency is written as a bare number, which is read in the default currency.
ReadCurrency(c) == IF c \in {Nil, Anon} THEN Anon ELSE <<2, c[2]>>
ReadValue(v) == Val(v.Amount, ReadCurrency(v.Currency))

\* The line of a split: its account and its value, its price after '@@'; its
\* date, written in a comment, is not read.
ReadSplit(sp, s) ==
    [Account     |-> ReadAccount(sp[s].Account),
     Transaction |-> 0,
     Time        |-> NoTime,
     Value       |-> ReadValue(sp[s].Value),
     Balance     |-> <<>>]

\* What Export writes of the ledger 1, opened as the ledger 2. The lines of
\* the transactions and of the prices are written in the order of their times,
\* as Fill has left both sorted. A ledger with assertions is not written: its
\* lines with '=' are not read as assertions.
OpenExported ==
    /\ pc = "returned" /\ err = "" /\ phase = "first"
    /\ ledger[1].Assertions = <<>>
    /\ LET ts == ledger[1].Transactions
           ls == ExportedSplits(transaction, ts, 1)
           nt == Len(transaction)
           ns == Len(split)
           priced == {m \in DOMAIN ls : HasSplitPrice(1, ls[m].s)}
       IN  /\ ledger' = [ledger EXCEPT ![2] =
                  [Accounts     |-> ReadAccounts(ledger[1].Accounts, 1),
                   Transactions |-> [n \in 1..Len(ts) |-> nt + n],
                   Prices       |-> [n \in 1..Len(ledger[1].Prices) |->
                                        [ledger[1].Prices[n] EXCEPT
                                            !.Currency = ReadCurrency(@),
                                            !.Value = ReadValue(@)]],
                   Assertions   |-> <<>>,
                   SplitPrices  |-> [s \in {ns + m : m \in priced} |->
                                        ReadValue(ledger[1].SplitPrices[ls[s - ns].s])]]]
           /\ account' = [a \in AccountPtrs |->
                  IF a = ExportedAssets THEN NewAccount
                  ELSE IF a = ExportedTransfer
                  THEN [NewAccount EXCEPT !.Parent = ExportedAssets]
                  ELSE IF a # TransferAccount /\ a[1] = 2
                  THEN [NewAccount EXCEPT !.Parent = Acc(2, ParsedParent[a[2]])]
                  ELSE account[a]]
           /\ transaction' = transaction \o
                  [n \in 1..Len(ts) |->
                      [Time   |-> transaction[ts[n]].Time,
                       Splits |-> [m \in 1..Len(transaction[ts[n]].Splits) |->
                                      ns + WrittenBefore(transaction, ts, n) + m]]]
           /\ split' = split \o [m \in DOMAIN ls |-> ReadSplit(split, ls[m].s)]
    /\ phase' = "exported"
    /\ first' = Seen(1)
    /\ cur' = 2
    /\ pc' = "start"
    /\ UNCHANGED <<journal, fillLocals, err>>
    /\ UNCHANGED <<convertLocals, others>>

-----------------------------------------------------------------------------
(* Convert *)

\* value.Mul(v2): value.Amount = value.Amount * v2.Amount / U (big.Int.Div)
Mul(value, v2) == [value EXCEPT !.Amount = Div(value.Amount * v2.Amount, U)]

\* The first loop of Convert over the prices from v's currency to currency,
\* from the n-th on: the index of a price of time when (equal), or the last
\* price before when and the first after it (time 0: none).
RECURSIVE DirectPrices(_, _, _, _, _, _)
DirectPrices(ps, v, w, currency, n, r) ==
    IF n > Len(ps) THEN r
    ELSE LET p == ps[n] IN
         IF p.Currency # v.Currency \/ p.Value.Currency # currency
         THEN DirectPrices(ps, v, w, currency, n + 1, r)
         ELSE IF p.Time = w THEN [r EXCEPT !.equal = n]
         ELSE IF p.Time < w
         THEN DirectPrices(ps, v, w, currency, n + 1,
                           [r EXCEPT !.prevTime = p.Time, !.prevValue = p.Value])
         ELSE [r EXCEPT !.nextTime = p.Time, !.nextValue = p.Value]

\* The second loop of Convert, over the prices from v's currency to any
\* currency: the price nearest to when.
RECURSIVE AnyPrice(_, _, _, _, _)
AnyPrice(ps, v, w, n, r) ==
    IF n > Len(ps) THEN r
    ELSE LET p == ps[n] IN
         IF p.Currency # v.Currency THEN AnyPrice(ps, v, w, n + 1, r)
         ELSE IF p.Time < w
         THEN AnyPrice(ps, v, w, n + 1, [r EXCEPT !.prevTime = p.Time, !.prevValue = p.Value])
         ELSE IF r.prevTime = 0 \/ p.Time - w < w - r.prevTime
         THEN [r EXCEPT !.prevTime = p.Time, !.prevValue = p.Value]
         ELSE r

InterpolateFromNext(d, w) ==
    [d.prevValue EXCEPT !.Amount =
        Quo((d.nextValue.Amount - d.prevValue.Amount) * (w - d.prevTime),
            d.nextTime - d.prevTime) + d.nextValue.Amount]

\* prevValue between prevTime and nextTime, at when.
Interpolate(d, w) ==
    [d.prevValue EXCEPT !.Amount =
        Quo((d.nextValue.Amount - d.prevValue.Amount) * (w - d.prevTime),
            d.nextTime - d.prevTime) + d.prevValue.Amount]

Frame(v, currency) == [v |-> v, currency |-> currency, stage |-> "call"]

\* return v, e
ConvertReturns(v, e) ==
    /\ result' = [Value |-> v, err |-> e]
    /\ pc' = "return"
    /\ stack' = stack

\* l.Convert(v, when, currency), called by the frame on top of the stack, which
\* stands at stage from then on.  A goroutine whose stack outgrows its limit
\* is fatal.
ConvertCalls(v, currency, stage) ==
    IF Len(stack) >= MaxDepth
    THEN /\ pc' = "panic"
         /\ result' = [Value |-> v, err |-> "stack overflow"]
         /\ stack' = stack
    ELSE /\ stack' = Append([stack EXCEPT ![Len(stack)].stage = stage], Frame(v, currency))
         /\ pc' = "convert"
         /\ result' = result

\* A caller calls l.Convert(v, when, currency) on a ledger Fill has completed.
ConvertCall ==
    /\ pc = "returned" /\ err = ""
    /\ calls < MaxCalls
    /\ calls' = calls + 1
    /\ result' = [Value |-> ZeroValue, err |-> ""]
    /\ \E a \in ConvertAmounts, c \in ConvertCurrencies, w \in ConvertTimes,
          currency \in ConvertCurrencies :
           /\ stack' = <<Frame(Val(a, Cur(cur, c)), Cur(cur, currency))>>
           /\ when' = w
    /\ pc' = "convert"
    /\ UNCHANGED <<journal, heap, phase, cur, fillLocals, err, first>>
    /\ UNCHANGED others

\* The body of Convert, up to its return or to its first call of itself.
ConvertBody ==
    /\ pc = "convert"
    /\ LET f  == stack[Len(stack)]
           v  == f.v
           ps == ledger[cur].Prices
           r0 == [equal |-> 0, prevTime |-> 0, prevValue |-> v,
                  nextTime |-> 0, nextValue |-> ZeroValue]
           d  == DirectPrices(ps, v, when, f.currency, 1, r0)
           a  == AnyPrice(ps, v, when, 1, [prevTime |-> 0, prevValue |-> v])
       IN  IF v.Currency = f.currency
           THEN ConvertReturns(v, "") /\ ledger' = ledger
           ELSE IF d.equal # 0
           THEN \* p.Value.Mul(v); return p.Value, nil
                /\ ledger' = [ledger EXCEPT ![cur].Prices[d.equal].Value = Mul(@, v)]
                /\ ConvertReturns(Mul(ps[d.equal].Value, v), "")
           ELSE /\ ledger' = ledger
                /\ IF d.prevTime = 0 /\ d.nextTime = 0
                   THEN IF a.prevTime = 0
                        THEN ConvertReturns(v, "could not convert")
                        ELSE ConvertCalls(v, a.prevValue.Currency, "first")
                   ELSE IF d.nextTime = 0 THEN ConvertReturns(Mul(d.prevValue, v), "")
                   ELSE IF d.prevTime = 0 THEN ConvertReturns(Mul(d.nextValue, v), "")
                   ELSE ConvertReturns(Mul(Interpolate(d, when), v), "")
    /\ UNCHANGED <<journal, account, transaction, split, phase, cur, fillLocals, err,
                   first, when, calls>>
    /\ UNCHANGED others

\* The call on top of the stack returns result: to the caller of Convert, or
\* to the call of Convert that made it, which goes on from there.
ConvertReturn ==
    /\ pc = "return"
    /\ LET rest == DropLast(stack) IN
       IF rest = <<>>
       THEN /\ stack' = rest
            /\ pc' = "returned"
            /\ result' = result
       ELSE LET f == rest[Len(rest)] IN
            IF f.stage = "first" /\ result.err = ""
            THEN \* return l.Convert(nv, when, currency)
                 IF Len(rest) >= MaxDepth
                 THEN /\ pc' = "panic"
                      /\ result' = [Value |-> result.Value, err |-> "stack overflow"]
                      /\ stack' = rest
                 ELSE /\ stack' = Append([rest EXCEPT ![Len(rest)].stage = "second"],
                                         Frame(result.Value, f.currency))
                      /\ pc' = "convert"
                      /\ result' = result
            ELSE \* return nv, err; or what the second call returned
                 /\ stack' = rest
                 /\ pc' = "return"
                 /\ result' = result
    /\ UNCHANGED <<journal, heap, phase, cur, fillLocals, err, first, when, calls>>
    /\ UNCHANGED others

Convert == ConvertCall \/ ConvertBody \/ ConvertReturn

\* The price directives of a journal, which the parser takes in the order of
\* their dates only.
ParsedPrices ==
    {p \in {[Time |-> t, Currency |-> Cur(1, c), Value |-> Val(a, Cur(1, d)),
              Comment |-> ""] :
                t \in ConvertTimes, c \in ConvertCurrencies, a \in PriceAmounts,
                d \in ConvertCurrencies} :
        p.Currency # p.Value.Currency}

\* A journal of price directives alone, opened as ledger 1.
InitPrices ==
    /\ journal = <<>>
    /\ \E n \in 0..MaxPrices : \E ps \in [1..n -> ParsedPrices] :
           /\ \A x, y \in 1..n : x < y => ps[x].Time <= ps[y].Time
           /\ ledger = [k \in Ledgers |->
                        IF k = 1 THEN [ParsedLedger(1, <<>>, 0, 0) EXCEPT !.Prices = ps]
                        ELSE EmptyLedger]
    /\ account = [a \in AccountPtrs |->
                     IF a # TransferAccount /\ a[1] = 1
                     THEN [NewAccount EXCEPT !.Parent = Acc(1, ParsedParent[a[2]])]
                     ELSE NewAccount]
    /\ transaction = <<>>
    /\ split = <<>>
    /\ phase = "first"
    /\ cur = 1
    /\ pc = "start"
    /\ finished = FALSE
    /\ deadlock = FALSE
    /\ iTransactions = 0
    /\ iAccounts = <<>>
    /\ i = 0
    /\ b = <<>>
    /\ err = ""
    /\ first = <<>>
    /\ stack = <<>>
    /\ when = 0
    /\ result = [Value |-> ZeroValue, err |-> ""]
    /\ calls = 0
    /\ asked = <<>>
    /\ gotBalance = <<>>
    /\ lines = <<>>
    /\ lastTime = 0
    /\ lastLine = "lineNone"
    /\ entries = <<>>
    /\ fatal = FALSE
    /\ currencies = <<>>
    /\ defaultCurrency = <<>>
    /\ text = <<>>
    /\ lexValue = [Amount |-> [neg |-> FALSE, digits |-> <<>>], Currency |-> 0 - 1]
    /\ lexErr = ""
    /\ rendered = <<>>
    /\ lexed = 0
    /\ jSplits = <<>>
    /\ jSplitPrices = <<>>
    /\ jAssertions = <<>>
    /\ fs = <<>>
    /\ files = <<>>
    /\ emitted = <<>>
    /\ scanErr = ""
    /\ pending = <<>>
    /\ InitMore

Fill ==
    \/ FillBegin \/ LoopEnter \/ TransactionStep \/ SplitStep \/ LoopExit
    \/ AddSplitPrices \/ FillEnd

Next == ReadTransaction \/ ReadPosting \/ Open \/ Fill \/ Refill \/ OpenSecond
Spec == Init /\ [][Next]_vars

\* A journal is opened and filled, exported, and the export opened and filled.
NextExport == ReadTransaction \/ ReadPosting \/ Open \/ Fill \/ OpenExported
SpecExport == Init /\ [][NextExport]_vars

-----------------------------------------------------------------------------
(* GetBalance *)

\* The times a caller asks a balance at: 0 is the zero time.Time.
BalanceTimes == 0..(NumTimes + 1)

\* The loop of GetBalance over the splits S of the account, from the i-th on
\* (the first split is the one of index 1 here, of index 0 in the source).
RECURSIVE BalanceBefore(_, _, _, _, _)
BalanceBefore(tr, sp, S, w, n) ==
    IF n > Len(S) THEN sp[S[Len(S)]].Balance
    ELSE IF TimeOf(tr, sp, S[n]) > w THEN sp[S[n - 1]].Balance
    ELSE BalanceBefore(tr, sp, S, w, n + 1)

\* l.GetBalance(account, when): nil is the empty balance.
GetBalanceOf(ac, tr, sp, a, w) ==
    LET S == ac[a].Splits IN
    IF Len(S) = 0 THEN <<>>
    ELSE IF w = 0 THEN sp[S[Len(S)]].Balance
    ELSE BalanceBefore(tr, sp, S, w, 2)

\* A caller asks the balance of an account of the ledger Fill has completed.
GetBalance ==
    /\ pc = "returned" /\ err = ""
    /\ \E n \in 1..Len(ledger[cur].Accounts), w \in BalanceTimes :
          LET a == ledger[cur].Accounts[n] IN
          /\ asked' = [account |-> a, when |-> w]
          /\ gotBalance' = GetBalanceOf(account, transaction, split, a, w)
    /\ UNCHANGED <<journal, heap, phase, cur, pc, fillLocals, err, first>>
    /\ UNCHANGED <<convertLocals, readLocals, lexLocals, postLocals, scanLocals, moreLocals>>

\* A journal is opened, and balances of its accounts are asked.
NextBalance == ReadTransaction \/ ReadPosting \/ Open \/ Fill \/ GetBalance
SpecBalance == Init /\ [][NextBalance]_vars

-----------------------------------------------------------------------------
(* readJournal: the dates of the price and transaction lines *)

MaxLines == 3

\* The dates getDate returns (of a day each); BadDate: getDate returns an error.
BadDate == 0
Dates == 1..(NumTimes + 1)

\* The part of readJournal's loop all lines of the model go through: the
\* process has not ended, there is a line more to read. The postings of the
\* model are those of the last transaction of the journal: no line follows them
\* (the line after them would balance the transaction, lines 651-656).
ReadsLine ==
    /\ ~fatal /\ Len(lines) < MaxLines /\ pc = "read" /\ journal = <<>>
    /\ lastLine # "lineSplit"

\* A line 'P date currency value'.
PriceLine ==
    /\ ReadsLine
    /\ \E date \in Dates \cup {BadDate}, ok \in BOOLEAN :
          /\ lines' = Append(lines, [kind |-> "P", date |-> date, ok |-> ok])
          /\ IF date = BadDate
             THEN \* syntax error: continue
                  UNCHANGED <<lastTime, lastLine, entries, fatal>>
             ELSE IF lastTime > date
             THEN /\ fatal' = TRUE
                  /\ UNCHANGED <<lastTime, lastLine, entries>>
             ELSE /\ lastTime' = date
                  /\ fatal' = fatal
                  /\ IF ok
                     THEN /\ entries' = Append(entries, [kind |-> "P", Time |-> date])
                          /\ lastLine' = "linePrice"
                     ELSE \* the value does not parse: continue
                          UNCHANGED <<entries, lastLine>>
    /\ UNCHANGED <<journal, heap, phase, cur, pc, fillLocals, err, first>>
    /\ UNCHANGED <<convertLocals, getLocals, lexLocals, postLocals, scanLocals, moreLocals>>

\* A line that is not indented and begins with a date: a transaction.
TransactionLine ==
    /\ ReadsLine
    /\ \E date \in Dates :
          /\ lines' = Append(lines, [kind |-> "transaction", date |-> date, ok |-> TRUE])
          /\ IF lastTime > date
             THEN /\ fatal' = TRUE
                  /\ UNCHANGED <<lastTime, lastLine, entries>>
             ELSE /\ lastTime' = date
                  /\ fatal' = fatal
                  /\ entries' = Append(entries, [kind |-> "transaction", Time |-> date])
                  /\ lastLine' = "lineTransaction"
    /\ UNCHANGED <<journal, heap, phase, cur, pc, fillLocals, err, first>>
    /\ UNCHANGED <<convertLocals, getLocals, lexLocals, postLocals, scanLocals, moreLocals>>

\* A journal of price and transaction lines is read.
NextJournal == PriceLine \/ TransactionLine
SpecJournal == Init /\ [][NextJournal]_vars

-----------------------------------------------------------------------------
(* getValue: the lexer of values.  A string is the sequence of its
   characters; an amount is its sign and its decimal digits (none: zero), so
   that it keeps every digit of an int64 of up to 18 digits. *)

Digits == <<"0", "1", "2", "3", "4", "5", "6", "7", "8", "9">>
IsDigit(c) == c \in Range(Digits)
DigitOf(c) == (CHOOSE n \in 1..10 : Digits[n] = c) - 1
IsSpace(c) == c = " "

\* The characters of an amount that comes first, and of one that comes last.
AmountFirst == Range(Digits) \cup {"-", "+", ".", ",", "_", "'"}
AmountLast == Range(Digits) \cup {"-", "+", ".", ",", "_"}

RECURSIVE TrimSpace(_)
TrimSpace(s) ==
    IF s = <<>> THEN s
    ELSE IF IsSpace(Head(s)) THEN TrimSpace(Tail(s))
    ELSE IF IsSpace(s[Len(s)]) THEN TrimSpace(SubSeq(s, 1, Len(s) - 1))
    ELSE s

\* The first character of s from the n-th on, the last one up to the n-th,
\* that is not in set (0: none).
RECURSIVE FirstOutside(_, _, _)
FirstOutside(s, set, n) ==
    IF n > Len(s) THEN 0
    ELSE IF s[n] \notin set THEN n ELSE FirstOutside(s, set, n + 1)
RECURSIVE LastOutside(_, _, _)
LastOutside(s, set, n) ==
    IF n = 0 THEN 0
    ELSE IF s[n] \notin set THEN n ELSE LastOutside(s, set, n - 1)

\* new(accounting.Currency)
NewCurrency ==
    [Name |-> <<>>, PrintBefore |-> FALSE, WithoutSpace |-> FALSE,
     Thousand |-> "", Decimal |-> "", Precision |-> 0]

\* value.Amount: zero, times ten plus a digit, times ten n times, times sign.
ZeroAmount == [neg |-> FALSE, digits |-> <<>>]
AppendDigit(ds, n) == IF ds = <<>> /\ n = 0 THEN ds ELSE Append(ds, n)
Zeros(n) == [k \in 1..n |-> 0]
TimesTen(ds, n) == IF ds = <<>> THEN ds ELSE ds \o Zeros(n)
Signed(ds, neg) == [neg |-> neg /\ ds # <<>>, digits |-> ds]

\* A value.Currency that points to no currency of the ledger.
Fresh == 0 - 1

\* The amount and the currency of the string s (not empty): amount first if
\* s begins with a sign or a digit, currency first otherwise.
SplitValue(s) ==
    IF s[1] \in {"-", "+"} \cup Range(Digits)
    THEN LET n == FirstOutside(s, AmountFirst, 1) IN
         IF n = 0 THEN [sAmount |-> s, Currency |-> NewCurrency, err |-> ""]
         ELSE [sAmount |-> SubSeq(s, 1, n - 1),
               Currency |-> [NewCurrency EXCEPT !.WithoutSpace = ~IsSpace(s[n]),
                                                !.Name = TrimSpace(SubSeq(s, n, Len(s)))],
               err |-> ""]
    ELSE LET n  == LastOutside(s, AmountLast, Len(s))
             c0 == [NewCurrency EXCEPT !.PrintBefore = TRUE]
         IN  IF n = 0
             THEN [sAmount |-> <<>>, Currency |-> c0,
                   err |-> "syntax error: currency without amount"]
             ELSE [sAmount |-> SubSeq(s, n + 1, Len(s)),
                   Currency |-> [c0 EXCEPT !.WithoutSpace = ~IsSpace(s[n]),
                                           !.Name = TrimSpace(SubSeq(s, 1, n))],
                   err |-> IF n = Len(s) THEN "syntax error: currency without amount"
                           ELSE ""]

RECURSIVE FindCurrency(_, _, _)
FindCurrency(cs, name, n) ==
    IF n > Len(cs) THEN 0
    ELSE IF cs[n].Name = name THEN n ELSE FindCurrency(cs, name, n + 1)

\* The currency of the value: the default currency (pointer 0; the new one
\* becomes the default if there is none) for an empty name, otherwise the
\* currency of that name in l.ledger.Currencies (pointer n: the n-th), to
\* which the new one is appended if there is none.
LookupCurrency(c, cs, dc) ==
    IF c.Name = <<>>
    THEN IF dc = <<>>
         THEN [ptr |-> 0, currencies |-> cs, defaultCurrency |-> <<c>>, newCurrency |-> TRUE]
         ELSE [ptr |-> 0, currencies |-> cs, defaultCurrency |-> dc, newCurrency |-> FALSE]
    ELSE LET n == FindCurrency(cs, c.Name, 1) IN
         IF n # 0
         THEN [ptr |-> n, currencies |-> cs, defaultCurrency |-> dc, newCurrency |-> FALSE]
         ELSE [ptr |-> Len(cs) + 1, currencies |-> Append(cs, c), defaultCurrency |-> dc,
               newCurrency |-> TRUE]

\* *value.Currency
CurrencyAt(cs, dc, ptr) == IF ptr = 0 THEN dc[1] ELSE cs[ptr]

LexFails(st, e) == [st EXCEPT !.err = e]

\* if punct == string(c): the mark seen before was a thousand sign.
SeenBefore(c, st) ==
    IF st.punct = c
    THEN [st EXCEPT !.Thousand = st.punct, !.thousandPos = st.punctPos,
                    !.punct = "", !.punctPos = 0 - 1]
    ELSE st

\* if punct != "" && punct != string(c): the mark seen before was a thousand
\* sign, and this one is the decimal sign.
TwoMarks(c, st) ==
    IF st.punct # "" /\ st.punct # c
    THEN [st EXCEPT !.Thousand = st.punct, !.Decimal = c, !.thousandPos = st.punctPos,
                    !.punct = "", !.punctPos = 0 - 1]
    ELSE st

\* The thousand sign of the currency st.Thousand at the index at (from 0).
ThousandSign(at, st) ==
    IF (st.thousandPos = 0 - 1 /\ at > 3) \/ at - st.thousandPos # 4
          \/ st.decimalPos > 0 - 1
    THEN LexFails(st, "syntax error: wrong position for thousand sign")
    ELSE [st EXCEPT !.thousandPos = at]

\* The decimal sign of the currency st.Decimal at the index at.
DecimalSign(at, st) ==
    IF st.decimalPos > 0 - 1
    THEN LexFails(st, "syntax error: more than one decimal sign")
    ELSE IF st.thousandPos > 0 - 1 /\ at - st.thousandPos # 4
    THEN LexFails(st, "syntax error: wrong position for thousand sign")
    ELSE [st EXCEPT !.decimalPos = at]

\* A mark that is neither the thousand sign nor the decimal sign.
OtherMark(c, at, st) ==
    IF st.Decimal # "" /\ st.Thousand # ""
    THEN LexFails(st, "syntax error: unknown punctuacion")
    ELSE IF at > 3 THEN [st EXCEPT !.Decimal = c, !.decimalPos = at]
    ELSE [st EXCEPT !.punct = c, !.punctPos = at]

DecimalOrOther(c, at, st) ==
    IF st.Decimal = c \/ (st.Decimal = "" /\ st.Thousand # "" /\ st.Thousand # c)
    THEN DecimalSign(at, [st EXCEPT !.Decimal = c])
    ELSE OtherMark(c, at, st)

ThousandOrOther(c, at, st) ==
    IF st.Thousand = c \/ (st.Thousand = "" /\ st.Decimal # "" /\ st.Decimal # c)
    THEN ThousandSign(at, [st EXCEPT !.Thousand = c])
    ELSE DecimalOrOther(c, at, TwoMarks(c, st))

\* One turn of the loop over the characters of sAmount: the character c at
\* the index at (from 0).
LexChar(c, at, st) ==
    IF IsDigit(c) THEN [st EXCEPT !.Amount = AppendDigit(@, DigitOf(c))]
    ELSE IF at = 0 THEN LexFails(st, "syntax error: wrong position for punctuation mark")
    ELSE IF c \in {"-", "+"} THEN LexFails(st, "syntax error: wrong punctuation mark")
    ELSE ThousandOrOther(c, at, SeenBefore(c, st))

\* The loop over the characters of sAmount, from the n-th on, up to its end
\* or to its first error.
RECURSIVE LexAmount(_, _, _)
LexAmount(sAmount, n, st) ==
    IF n > Len(sAmount) \/ st.err # "" THEN st
    ELSE LexAmount(sAmount, n + 1, LexChar(sAmount[n], n - 1, st))

InDoubtIsDecimal(st, len) ==
    IF st.punct # ""
    THEN [st EXCEPT !.Decimal = st.punct, !.decimalPos = st.punctPos,
                    !.punct = "", !.punctPos = 0 - 1]
    ELSE st

\* After the loop: a mark still in doubt is the decimal sign unless three
\* digits follow it.
InDoubt(st, len) ==
    IF st.punct # "" /\ len - st.punctPos # 4
    THEN [st EXCEPT !.Decimal = st.punct, !.decimalPos = st.punctPos,
                    !.punct = "", !.punctPos = 0 - 1]
    ELSE st

\* The amount in units of 1/U, with its sign, and the decimal sign by default.
Shifted8(st, shift, sign) ==
    IF shift < 0 \/ shift > 8
    THEN LexFails(st, "syntax error: too many decimal numbers")
    ELSE [st EXCEPT !.Amount = TimesTen(@, shift),
                    !.neg = sign,
                    !.Decimal = IF @ # "" THEN @
                                ELSE IF st.Thousand # "." THEN "." ELSE ","]

WithDecimalsOfLast(st, decimals, sign, newCurrency) ==
    Shifted8(IF st.decimalPos # 0 - 1
             THEN [st EXCEPT !.Precision = decimals] ELSE st,
             8 - decimals, sign)

\* The decimals of the amount, which are the precision of a new currency.
WithDecimals(st, decimals, sign, newCurrency) ==
    Shifted8(IF st.decimalPos # 0 - 1 /\ newCurrency
             THEN [st EXCEPT !.Precision = decimals] ELSE st,
             8 - decimals, sign)

\* After the loop and the mark in doubt: the mark that is still in doubt, or
\* the number of decimals.
Decided(st, len, sign, newCurrency) ==
    IF st.punct # ""
    THEN LexFails(st, "syntax error: punctuation can be a thousand or a decimal")
    ELSE WithDecimals(st, IF st.decimalPos = 0 - 1 THEN 0 ELSE len - st.decimalPos - 1,
                      sign, newCurrency)

\* What follows the loop, if it has met no error.
LexEnd(st, len, sign, newCurrency) ==
    IF st.err # "" THEN st ELSE Decided(InDoubt(st, len), len, sign, newCurrency)

\* The locals of getValue before the loop, for an amount in the currency c0.
LexStart(c0) ==
    [Amount |-> <<>>, neg |-> FALSE, punct |-> "", punctPos |-> 0 - 1,
     thousandPos |-> 0 - 1, decimalPos |-> 0 - 1,
     Thousand |-> c0.Thousand, Decimal |-> c0.Decimal, Precision |-> c0.Precision,
     err |-> ""]

\* The amount sAmount, its sign taken away.
LexUnsigned(sAmount, sign, newCurrency, st0) ==
    IF sAmount = <<>> THEN LexFails(st0, "panic: index out of range")
    ELSE IF ~IsDigit(sAmount[Len(sAmount)])
    THEN LexFails(st0, "syntax error: amount must end with a digit")
    ELSE LexEnd(LexAmount(sAmount, 1, st0), Len(sAmount), sign, newCurrency)

\* What getValue returns and leaves: the currency at ptr is c.
Returned(amount, ptr, e, cs, dc, c) ==
    [Value |-> [Amount |-> amount, Currency |-> ptr], err |-> e,
     currencies |-> IF ptr > 0 THEN [cs EXCEPT ![ptr] = c] ELSE cs,
     defaultCurrency |-> IF ptr = 0 THEN <<c>> ELSE dc]

\* The amount st lexed in the currency c0 of the pointer lk.ptr.
LexStored(lk, c0, st) ==
    Returned(Signed(st.Amount, st.neg), lk.ptr, st.err, lk.currencies, lk.defaultCurrency,
             [c0 EXCEPT !.Thousand = st.Thousand, !.Decimal = st.Decimal,
                        !.Precision = st.Precision])

LexIn(sAmount, lk, c0) ==
    LexStored(lk, c0,
              LexUnsigned(IF sAmount[1] \in {"-", "+"} THEN Tail(sAmount) ELSE sAmount,
                          sAmount[1] = "-", lk.newCurrency, LexStart(c0)))

LexLooked(sAmount, lk) ==
    LexIn(sAmount, lk, CurrencyAt(lk.currencies, lk.defaultCurrency, lk.ptr))

LexSplit(sp, cs, dc) ==
    IF sp.err # "" THEN Returned(ZeroAmount, Fresh, sp.err, cs, dc, NewCurrency)
    ELSE LexLooked(sp.sAmount, LookupCurrency(sp.Currency, cs, dc))

\* l.getValue(s): the value and the error returned, and the currencies of
\* the ledger and the default currency as the call leaves them.
getValue(s, cs, dc) ==
    IF s = <<>> THEN Returned(ZeroAmount, Fresh, "empty value", cs, dc, NewCurrency)
    ELSE LexSplit(SplitValue(s), cs, dc)

-----------------------------------------------------------------------------
(* Value.String and Value.FullString *)

DigitsText(ds) == [n \in 1..Len(ds) |-> Digits[ds[n] + 1]]

\* Groups of three digits counted from the left.
RECURSIVE GroupsFromLeft(_, _, _)
GroupsFromLeft(integer, thousand, n) ==
    LET l     == Len(integer)
        start == 3 * n
        end   == IF start + 3 > l THEN l ELSE start + 3
    IN  IF n >= 1 + ((l - 1) \div 3) THEN <<>>
        ELSE (IF n > 0 /\ thousand # "" THEN <<thousand>> ELSE <<>>)
               \o SubSeq(integer, start + 1, end)
               \o GroupsFromLeft(integer, thousand, n + 1)

\* The groups of three digits of integer, from the n-th on (from 0), with the
\* thousands separator between them.
RECURSIVE Groups(_, _, _)
Groups(integer, thousand, n) ==
    LET l     == Len(integer)
        end   == 3 * n + ((l - 1) % 3) + 1
        start == IF end - 3 < 0 THEN 0 ELSE end - 3
    IN  IF n >= 1 + ((l - 1) \div 3) THEN <<>>
        ELSE (IF n > 0 /\ thousand # "" THEN <<thousand>> ELSE <<>>)
               \o SubSeq(integer, start + 1, end)
               \o Groups(integer, thousand, n + 1)

\* The number of decimals FullString writes: up to the last one that is not
\* zero, and no less than precision.
RECURSIVE FullPrecision(_, _, _)
FullPrecision(digits, precision, n) ==
    IF n < precision + 1 THEN precision
    ELSE IF digits[n] # 0 THEN n
    ELSE FullPrecision(digits, precision, n - 1)

\* value.getString(full), for the amount of the value and its currency c
\* (with a precision from 0 to 8).
getString(amount, c, full) ==
    LET ds       == amount.digits
        whole    == IF Len(ds) > 8 THEN SubSeq(ds, 1, Len(ds) - 8) ELSE <<0>>
        d        == IF Len(ds) >= 8 THEN SubSeq(ds, Len(ds) - 7, Len(ds))
                    ELSE Zeros(8 - Len(ds)) \o ds
        Decimal  == IF c.Decimal = "" THEN "." ELSE c.Decimal
        precision == IF full THEN FullPrecision(d, c.Precision, 8) ELSE c.Precision
    IN  (IF c.PrintBefore
         THEN c.Name \o (IF ~c.WithoutSpace THEN <<" ">> ELSE <<>>) ELSE <<>>)
        \o (IF amount.neg THEN <<"-">> ELSE <<>>)
        \o Groups(DigitsText(whole), c.Thousand, 0)
        \o (IF c.Precision > 0 \/ (full /\ d # Zeros(8))
            THEN <<Decimal>> \o DigitsText(SubSeq(d, 1, precision)) ELSE <<>>)
        \o (IF ~c.PrintBefore
            THEN (IF ~c.WithoutSpace /\ c.Name # <<>> THEN <<" ">> ELSE <<>>) \o c.Name
            ELSE <<>>)

-----------------------------------------------------------------------------
(* The values a journal holds, and the calls of getValue on them *)

\* The p-th digit of a number written 1234567890..., or 1000000000...
DigitAt(scheme, p) ==
    IF scheme = "count" THEN Digits[(p % 10) + 1]
    ELSE IF p = 1 THEN "1" ELSE "0"
Run(scheme, from, k) == [n \in 1..k |-> DigitAt(scheme, from + n - 1)]

\* The text of a number: lead digits, then for each of seps a punctuation
\* mark and k digits.
RECURSIVE Number(_, _, _, _)
Number(scheme, from, lead, seps) ==
    Run(scheme, from, lead)
      \o (IF seps = <<>> THEN <<>>
          ELSE <<seps[1].mark>> \o Number(scheme, from + lead, seps[1].k, Tail(seps)))

Group(mark, k) == [mark |-> mark, k |-> k]

\* The text of a value: a number and the name of a currency.
Token(layout, name, number) ==
    CASE layout = "prefix"      -> name \o number
      [] layout = "prefixSpace" -> name \o <<" ">> \o number
      [] layout = "suffix"      -> number \o name
      [] layout = "suffixSpace" -> number \o <<" ">> \o name

EUR == <<"E", "U", "R">>
Dollar == <<"$">>
Signs == {<<>>, <<"-">>}
Marks == {".", ","}
MaxLead == 4
MaxDecimals == 4
MaxTokens == 2

\* Numbers with groups of three digits, and perhaps decimals, in EUR.
GroupedNumbers ==
    {Number("count", 1, lead, seps) :
        lead \in 1..MaxLead,
        seps \in UNION {{<<Group(t, 3)>>, <<Group(t, 3), Group(t, 3)>>,
                          <<Group(t, 3), Group(d, 2)>>} : t \in Marks, d \in Marks}}
GroupedTokens ==
    {Token("suffixSpace", EUR, sign \o n) : sign \in Signs, n \in GroupedNumbers}

\* Numbers with one punctuation mark, and no currency.
SingleNumber(scheme, lead, mark, k) == Number(scheme, 1, lead, <<Group(mark, k)>>)
SingleTokens ==
    {SingleNumber(scheme, lead, mark, k) :
        scheme \in {"count", "zeros"}, lead \in 1..MaxLead, mark \in Marks,
        k \in 0..MaxDecimals}

\* Numbers of one digit before the decimal point, in dollars, the name before
\* or after the number, with or without a space.
Layouts == {"prefix", "prefixSpace", "suffix", "suffixSpace"}
LayoutNumber(k) ==
    IF k = 0 THEN Number("count", 1, 1, <<>>) ELSE Number("count", 1, 1, <<Group(".", k)>>)
LayoutTokens ==
    {Token(layout, Dollar, LayoutNumber(k)) : layout \in Layouts, k \in 0..MaxDecimals}

\* Numbers in dollars with one group of three digits after an apostrophe.
QuotedTokens ==
    {Token(layout, Dollar, Number("zeros", 1, lead, <<Group("'", 3)>>)) :
        layout \in Layouts, lead \in 1..3}

ledgerVars == <<journal, heap, phase, cur, pc, fillLocals, err, first, convertLocals>>

\* l.getValue(s) is called.
Lex(s) ==
    LET r == getValue(s, currencies, defaultCurrency) IN
    /\ text' = s
    /\ lexValue' = r.Value
    /\ lexErr' = r.err
    /\ currencies' = r.currencies
    /\ defaultCurrency' = r.defaultCurrency

LexGrouped ==
    /\ lexed < MaxTokens /\ rendered = <<>>
    /\ \E s \in GroupedTokens : Lex(s)
    /\ lexed' = lexed + 1
    /\ rendered' = <<>>
    /\ UNCHANGED <<ledgerVars, getLocals, readLocals, postLocals, scanLocals, moreLocals>>

LexSingle ==
    /\ lexed < MaxTokens /\ rendered = <<>>
    /\ \E s \in SingleTokens : Lex(s)
    /\ lexed' = lexed + 1
    /\ rendered' = <<>>
    /\ UNCHANGED <<ledgerVars, getLocals, readLocals, postLocals, scanLocals, moreLocals>>

LexLayout ==
    /\ lexed < MaxTokens /\ rendered = <<>>
    /\ \E s \in LayoutTokens : Lex(s)
    /\ lexed' = lexed + 1
    /\ rendered' = <<>>
    /\ UNCHANGED <<ledgerVars, getLocals, readLocals, postLocals, scanLocals, moreLocals>>

LexQuoted ==
    /\ lexed < MaxTokens /\ rendered = <<>>
    /\ \E s \in QuotedTokens : Lex(s)
    /\ lexed' = lexed + 1
    /\ rendered' = <<>>
    /\ UNCHANGED <<ledgerVars, getLocals, readLocals, postLocals, scanLocals, moreLocals>>

\* The currencies a value of the ledger may point to.
CurrencyPtrs == (IF defaultCurrency = <<>> THEN {} ELSE {0}) \cup (1..Len(currencies))

\* The amount of the last value lexed from a journal, or its opposite, is
\* written in full in a currency of the ledger, and what was written is lexed.
Relex ==
    /\ text # <<>> /\ lexErr = "" /\ rendered = <<>>
    /\ \E ptr \in CurrencyPtrs, neg \in BOOLEAN :
          LET amount == Signed(lexValue.Amount.digits, neg)
              c      == CurrencyAt(currencies, defaultCurrency, ptr)
          IN  /\ rendered' = <<[Amount |-> amount, Currency |-> ptr]>>
              /\ Lex(getString(amount, c, TRUE))
    /\ lexed' = lexed
    /\ UNCHANGED <<ledgerVars, getLocals, readLocals, postLocals, scanLocals, moreLocals>>

NextLexer == LexGrouped \/ LexSingle \/ LexLayout \/ LexQuoted \/ Relex
SpecLexer == Init /\ [][NextLexer]_vars

-----------------------------------------------------------------------------
(* readJournal: the lines of the postings *)

\* strings.Index(s, sub), counted from 0 as Go does; -1 when sub is not in s.
Index(s, sub) ==
    LET found == {n \in 0..(Len(s) - Len(sub)) : SubSeq(s, n + 1, n + Len(sub)) = sub}
    IN  IF found = {} THEN 0 - 1 ELSE CHOOSE n \in found : \A m \in found : n <= m

\* s[from:to] of Go.
Slice(s, from, to) == SubSeq(s, from + 1, to)

\* The digits of a natural number, and the number of a sequence of digits.
RECURSIVE NatDigits(_)
NatDigits(n) == IF n = 0 THEN <<>> ELSE Append(NatDigits(n \div 10), n % 10)
RECURSIVE DigitsNat(_)
DigitsNat(ds) == IF ds = <<>> THEN 0 ELSE 10 * DigitsNat(SubSeq(ds, 1, Len(ds) - 1)) + ds[Len(ds)]
RECURSIVE Power10(_)
Power10(n) == IF n = 0 THEN 1 ELSE 10 * Power10(n - 1)

\* How many zeros a sequence of digits ends with.
RECURSIVE ZerosAtEnd(_)
ZerosAtEnd(ds) ==
    IF ds = <<>> \/ ds[Len(ds)] # 0 THEN 0 ELSE 1 + ZerosAtEnd(SubSeq(ds, 1, Len(ds) - 1))

\* k := big.NewInt(a); k.Mul(k, big.NewInt(p)); k.Quo(k, big.NewInt(U)): the
\* product of the two amounts without their zeros at the end, then the power of
\* ten that is left of these zeros and of U; Quo truncates towards zero.
UnitPrice(a, p) ==
    LET za == ZerosAtEnd(a.digits)
        zp == ZerosAtEnd(p.digits)
        product == DigitsNat(SubSeq(a.digits, 1, Len(a.digits) - za))
                       * DigitsNat(SubSeq(p.digits, 1, Len(p.digits) - zp))
    IN  IF za + zp >= 8
        THEN Signed(TimesTen(NatDigits(product), za + zp - 8), a.neg # p.neg)
        ELSE Signed(NatDigits(product \div Power10(8 - za - zp)), a.neg # p.neg)

\* The zero Value: a split that has been given no value.
NoLexValue == [Amount |-> ZeroAmount, Currency |-> Fresh]

\* m[k] = v of a Go map.
MapSet(m, k, v) == [x \in DOMAIN m \cup {k} |-> IF x = k THEN v ELSE m[x]]

\* What the lines 748-800 make of the text of a posting, with the currencies cs
\* and dc: the split (if 'continue' is not reached), its price if it has one,
\* and the currencies after the calls of getValue.
SplitOnly(name, cs, dc) ==
    [ok |-> TRUE, Account |-> name, Value |-> NoLexValue, price |-> <<>>,
     currencies |-> cs, defaultCurrency |-> dc]

SplitWith(name, r, price) ==
    [ok |-> r.err = "", Account |-> name, Value |-> r.Value, price |-> price,
     currencies |-> r.currencies, defaultCurrency |-> r.defaultCurrency]

\* if text[i+j+1] == '@' { ... } else { ... }
Priced(name, r, t, at) ==
    IF t[at + 2] = "@"
    THEN LET p == getValue(TrimSpace(Slice(t, at + 2, Len(t))), r.currencies, r.defaultCurrency)
         IN  SplitWith(name, [p EXCEPT !.Value = r.Value], <<p.Value>>)
    ELSE LET p == getValue(TrimSpace(Slice(t, at + 1, Len(t))), r.currencies, r.defaultCurrency)
         IN  SplitWith(name, [p EXCEPT !.Value = r.Value],
                       <<[p.Value EXCEPT !.Amount = UnitPrice(r.Value.Amount, @)]>>)

\* j > 0: the value before the '@', then the price after it.
WithAt(name, t, n, j, cs, dc) ==
    LET r == getValue(TrimSpace(Slice(t, n, n + j)), cs, dc) IN
    IF r.err # "" THEN SplitWith(name, r, <<>>)
    ELSE IF Len(t) - n - j < 2 THEN [SplitWith(name, r, <<>>) EXCEPT !.ok = FALSE]
    ELSE Priced(name, r, t, n + j)

Posted(t, n, cs, dc) ==
    IF n > 0
    THEN LET j == Index(Slice(t, n, Len(t)), <<"@">>) IN
         IF j > 0 THEN WithAt(Slice(t, 0, n), t, n, j, cs, dc)
         ELSE SplitWith(Slice(t, 0, n), getValue(TrimSpace(Slice(t, n, Len(t))), cs, dc), <<>>)
    ELSE SplitOnly(t, cs, dc)

\* The texts of the postings of the model: an account, and after two spaces
\* (or four) what the grammar allows: a value, '@' or '@@' and a price, '=' and
\* a value.
Cash == <<"C", "a", "s", "h">>
PostingValues ==
    {<<>>, <<"5", " ", "X">>, <<"-", "5", " ", "X">>, <<"1", ".", "5", " ", "X">>,
     <<"1", ".", "0", "0", "0">>, <<"0", ".", "0", "0", "0", "0", "0", "0", "0", "3", " ", "X">>}
PostingPrices ==
    {<<>>, <<"@", " ", "$", "2">>, <<"@", "@", " ", "$", "2">>, <<"@", " ", "$", "0", ".", "5">>,
     <<"@">>}
PostingAssertions == {<<>>, <<"=", " ", "$", "5", "0">>}
Gaps == {<<" ", " ">>, <<" ", " ", " ", " ">>}

\* The parts of a payload, with one space between them.
Spaced(x, y) == IF x = <<>> THEN y ELSE IF y = <<>> THEN x ELSE x \o <<" ">> \o y
Payload(v, p, a) == Spaced(Spaced(v, p), a)
PostingText(gap, v, p, a) ==
    IF Payload(v, p, a) = <<>> THEN Cash ELSE Cash \o gap \o Payload(v, p, a)

\* An indented line after a transaction or a posting: a posting (lines 742-804).
\* The line is trimmed and has no comment.
PostingLine ==
    /\ ~fatal /\ Len(lines) < MaxLines
    /\ lastLine \in {"lineTransaction", "lineSplit"}
    /\ \E gap \in Gaps, v \in PostingValues, p \in PostingPrices, a \in PostingAssertions :
          LET t == PostingText(gap, v, p, a)
              r == Posted(t, Index(t, <<" ", " ">>), currencies, defaultCurrency)
          IN  /\ lines' = Append(lines, [kind |-> "split", date |-> BadDate, ok |-> r.ok,
                                         value |-> v, price |-> p, assertion |-> a])
              /\ currencies' = r.currencies
              /\ defaultCurrency' = r.defaultCurrency
              /\ IF r.ok
                 THEN /\ jSplits' = Append(jSplits, [Account |-> r.Account, Value |-> r.Value])
                      /\ jSplitPrices' = IF r.price = <<>> THEN jSplitPrices
                                         ELSE MapSet(jSplitPrices, Len(jSplits) + 1, r.price[1])
                      /\ lastLine' = "lineSplit"
                 ELSE UNCHANGED <<jSplits, jSplitPrices, lastLine>>
    /\ UNCHANGED <<jAssertions, lastTime, entries, fatal>>
    /\ UNCHANGED <<text, lexValue, lexErr, rendered, lexed>>
    /\ UNCHANGED <<ledgerVars, getLocals, scanLocals, moreLocals>>

\* A journal whose last transaction has postings is read.
NextPosting == TransactionLine \/ PostingLine
SpecPosting == Init /\ [][NextPosting]_vars

-----------------------------------------------------------------------------
(* Scanner: the lines of a journal and of the files it includes *)

\* A file name is the sequence of the parts of its path; the first part of an
\* absolute one is "/". path.Dir drops the last part, path.Join appends.
IsAbsolute(name) == name # <<>> /\ name[1] = "/"
Dir(name) == SubSeq(name, 1, Len(name) - 1)
Join(dir, name) == dir \o name

\* The lines of the files: text, an include of a file name, or a line too
\* long for the bufio.Scanner, at which Scan returns false and Err is not nil.
TextLine == [kind |-> "text", file |-> <<>>]
LongLine == [kind |-> "long", file |-> <<>>]
Include(name) == [kind |-> "include", file |-> name]

MaxOpen == 3        \* files open at a time (a file may include itself)

RECURSIVE SeqsUpTo(_, _)
SeqsUpTo(S, n) ==
    IF n = 0 THEN {<<>>}
    ELSE SeqsUpTo(S, n - 1) \cup {Append(s, x) : s \in SeqsUpTo(S, n - 1), x \in S}

\* The journal and the files there are beside it: d/b, d/c and /e. The names
\* b and c exist in the directory d only, and /c does not exist.
Journal == <<"a">>
FileDB  == <<"d", "b">>
FileDC  == <<"d", "c">>
FileE   == <<"/", "e">>
FileNames == {Journal, FileDB, FileDC, FileE}
JournalTexts == SeqsUpTo({TextLine, Include(FileDB), Include(<<"b">>), Include(FileE)}, 3)
FileDBTexts  == SeqsUpTo({TextLine, Include(<<"c">>), Include(<<"b">>), LongLine}, 2)
FileDCTexts  == SeqsUpTo({TextLine, LongLine}, 1)
FileETexts   == SeqsUpTo({TextLine, Include(<<"c">>)}, 1)
FileSystems ==
    {[name \in FileNames |->
        CASE name = Journal -> a [] name = FileDB -> db [] name = FileDC -> dc [] name = FileE -> e] :
        a \in JournalTexts \ {<<>>}, db \in FileDBTexts, dc \in FileDCTexts, e \in FileETexts}

\* if len(filename) > 0 && filename[0] != '/' && len(s.files) > 0 { path.Join(path.Dir(...)) }
Resolved(S, name) ==
    IF name # <<>> /\ ~IsAbsolute(name) /\ S # <<>>
    THEN Join(Dir(S[Len(S)].filename), name) ELSE name

\* Scanner.NewFile: the stack with the file on top, if os.Open finds it.
NewFile(d, S, name) ==
    IF Resolved(S, name) \in DOMAIN d
    THEN Append(S, [filename |-> Resolved(S, name), lineNum |-> 0])
    ELSE S

PopAll(S) == <<>>
\* s.files = s.files[:len(s.files)-1]
Pop(S) == SubSeq(S, 1, Len(S) - 1)

\* Scanner.Line: the line it returns and the stack it leaves.
RECURSIVE Line(_, _)
Line(d, S) ==
    IF S = <<>> THEN [Filename |-> <<>>, LineNum |-> 0, Text |-> <<>>, Err |-> "EOF", files |-> S]
    ELSE LET file == S[Len(S)]
             more == file.lineNum < Len(d[file.filename])
         IN  IF more /\ d[file.filename][file.lineNum + 1].kind # "long"
             THEN [Filename |-> file.filename, LineNum |-> file.lineNum + 1,
                   Text |-> <<d[file.filename][file.lineNum + 1]>>, Err |-> "",
                   files |-> [S EXCEPT ![Len(S)].lineNum = @ + 1]]
             ELSE IF more
             THEN [Filename |-> file.filename, LineNum |-> file.lineNum, Text |-> <<>>,
                   Err |-> "token too long", files |-> S]
             ELSE Line(d, Pop(S))

\* readJournal opens the journal: s := NewScanner(); s.NewFile(l.file).
OpenJournal ==
    /\ fs = <<>>
    /\ \E d \in FileSystems :
          /\ fs' = d
          /\ files' = NewFile(d, <<>>, Journal)
    /\ UNCHANGED <<emitted, scanErr, pending>>
    /\ UNCHANGED <<ledgerVars, getLocals, readLocals, lexLocals, postLocals, moreLocals>>

\* line := s.Line(), and what readJournal does with it as far as the scanner
\* goes: it ends at an error, and it is at an include when the line is one.
ReadLine ==
    /\ fs # <<>> /\ scanErr = "" /\ pending = <<>>
    /\ LET line == Line(fs, files) IN
          /\ files' = line.files
          /\ scanErr' = line.Err
          /\ emitted' = IF line.Err = "" THEN Append(emitted, [Filename |-> line.Filename,
                                                               LineNum |-> line.LineNum,
                                                               Text |-> line.Text[1]])
                        ELSE emitted
          /\ pending' = IF line.Err = "" /\ line.Text[1].kind = "include"
                        THEN line.Text[1].file ELSE <<>>
    /\ UNCHANGED fs
    /\ UNCHANGED <<ledgerVars, getLocals, readLocals, lexLocals, postLocals, moreLocals>>

\* The line is an include: err := s.NewFile(newFile), and a file that cannot
\* be opened is reported and passed over. No more than MaxOpen files are open.
IncludeFile ==
    /\ pending # <<>>
    /\ Len(NewFile(fs, files, pending)) <= MaxOpen
    /\ files' = NewFile(fs, files, pending)
    /\ pending' = <<>>
    /\ UNCHANGED <<fs, emitted, scanErr>>
    /\ UNCHANGED <<ledgerVars, getLocals, readLocals, lexLocals, postLocals, moreLocals>>

NextScanner == OpenJournal \/ ReadLine \/ IncludeFile
SpecScanner == Init /\ [][NextScanner]_vars

\* A journal of price directives is opened, and its ledger converts values.
NextConvert == Fill \/ Convert
SpecConvert == InitPrices /\ [][NextConvert]_vars

-----------------------------------------------------------------------------
(* Register *)

DriverNames == {"ledger", "txtdb", "postgres"}
NilDriver == "nil"
Drivers == {NilDriver, "driver 1", "driver 2"}

\* Register without the test of a name registered before.
RegisterAgain(name, driver) ==
    IF driver = NilDriver
    THEN /\ registered' = [name |-> name, driver |-> driver,
                           panic |-> "accounting: Register driver is nil"]
         /\ UNCHANGED drivers
    ELSE /\ drivers' = [n \in DOMAIN drivers \cup {name} |->
                            IF n = name THEN driver ELSE drivers[n]]
         /\ registered' = [name |-> name, driver |-> driver, panic |-> ""]

\* Register(name, driver): the two panics leave the map as it was (the mutex
\* is released by the deferred Unlock).
Register(name, driver) ==
    IF driver = NilDriver
    THEN /\ registered' = [name |-> name, driver |-> driver,
                           panic |-> "accounting: Register driver is nil"]
         /\ UNCHANGED drivers
    ELSE IF name \in DOMAIN drivers
    THEN /\ registered' = [name |-> name, driver |-> driver,
                           panic |-> "accounting: Register called twice for driver"]
         /\ UNCHANGED drivers
    ELSE /\ drivers' = [n \in DOMAIN drivers \cup {name} |->
                            IF n = name THEN driver ELSE drivers[n]]
         /\ registered' = [name |-> name, driver |-> driver, panic |-> ""]

\* A call of Register, by a package's init or by a caller that recovers from
\* the panic of an earlier call.
RegisterCall ==
    /\ \E name \in DriverNames, driver \in Drivers : Register(name, driver)
    /\ UNCHANGED <<ledgerVars, getLocals, readLocals, lexLocals, postLocals, scanLocals, balLocals, printed, commentLocals, opened>>

NextRegister == RegisterCall

SpecRegister == Init /\ [][NextRegister]_vars

-----------------------------------------------------------------------------
(* The methods of Balance *)

MaxHeld == 2    \* what the Balance holds in a currency lies in -MaxHeld..MaxHeld

BalanceCurrencies == {Anon, <<1, 1>>, <<1, 2>>}
BalanceValues == {Val(a, c) : a \in (0 - MaxHeld)..MaxHeld, c \in BalanceCurrencies}

\* The balances given to AddBalance and SubBalance: of up to two values, of
\* amount 1 or -1, in different currencies.
Balances ==
    LET units == {v \in BalanceValues : v.Amount \in {0 - 1, 1}} IN
    {<<>>} \cup {<<v>> : v \in units}
           \cup {<<p[1], p[2]>> : p \in {q \in units \X units : q[1].Currency # q[2].Currency}}

\* The method op has been called with arg, and has left the Balance as after;
\* sign is 1 when arg was added and -1 when it was subtracted.
Called(op, arg, after, sign) ==
    /\ held' = after
    /\ summed' = [c \in BalanceCurrencies |-> summed[c] + sign * AmountIn(arg, c)]
    /\ \A c \in BalanceCurrencies : summed'[c] \in (0 - MaxHeld)..MaxHeld
    /\ called' = <<op, arg>>
    /\ UNCHANGED <<ledgerVars, getLocals, readLocals, lexLocals, postLocals, scanLocals, regLocals, printed, commentLocals, opened>>

BalanceAdd == \E v \in BalanceValues : Called("Add", <<v>>, Add(held, v), 1)

BalanceSub == \E v \in BalanceValues : Called("Sub", <<v>>, Sub(held, v), 0 - 1)

BalanceAddBalance == \E b2 \in Balances : Called("AddBalance", b2, AddBalance(held, b2), 1)

BalanceSubBalance == \E b2 \in Balances : Called("SubBalance", b2, SubBalance(held, b2), 0 - 1)

BalanceDup == Called("Dup", <<>>, Dup(held), 1)

NextMethods ==
    \/ BalanceAdd
    \/ BalanceSub
    \/ BalanceAddBalance
    \/ BalanceSubBalance
    \/ BalanceDup

SpecMethods == Init /\ [][NextMethods]_vars

-----------------------------------------------------------------------------
(* Value.String *)

\* The amounts written: of units with one to seven digits, and of hundred
\* millionths of a unit some of which would round upwards.
Units == {0, 1, 12, 999, 1000, 1234, 12345, 123456, 1000000, 1234567}
Fractions == {0, 5, 23450000, 50000000, 99900000, 99999999}
Precisions == {0, 1, 2, 3, 8}

PrintedCurrencies ==
    [Name : {<<>>, Dollar}, PrintBefore : BOOLEAN, WithoutSpace : BOOLEAN,
     Thousand : {"", ","}, Decimal : {"", ".", "'"}, Precision : Precisions]

\* The digits of units * U + fraction.
AmountDigits(units, fraction) ==
    IF units = 0 THEN NatDigits(fraction)
    ELSE NatDigits(units) \o Zeros(8 - Len(NatDigits(fraction))) \o NatDigits(fraction)

\* value.String(), of a value in the currency c (the zero Currency when the
\* value has none); String reads nothing but its value, so one call is made.
ValueString ==
    /\ printed = <<>>
    /\ \E units \in Units, fraction \in Fractions, neg \in BOOLEAN, c \in PrintedCurrencies :
          LET amount == Signed(AmountDigits(units, fraction), neg) IN
          printed' = [units |-> units, fraction |-> fraction, neg |-> amount.neg,
                      Currency |-> c, string |-> getString(amount, c, FALSE)]
    /\ UNCHANGED <<ledgerVars, getLocals, readLocals, lexLocals, postLocals, scanLocals,
                   regLocals, balLocals, commentLocals, opened>>

NextString == ValueString

SpecString == Init /\ [][NextString]_vars

-----------------------------------------------------------------------------
(* readJournal: the indented comments *)

\* What follows 'commodity': 1 EUR, $1, 1 (no symbol), and EUR (no amount).
CommodityTexts ==
    {Token("suffixSpace", EUR, Number("count", 1, 1, <<>>)),
     Token("prefix", Dollar, Number("count", 1, 1, <<>>)),
     Number("count", 1, 1, <<>>),
     EUR}

\* What follows 'account': the names A, A:B and C.
AccountTexts == {<<"A">>, <<"A", "B">>, <<"C">>}

\* l.getAccount(s), on the accounts as: the account of that full name, or a
\* new one appended after its parent, found or appended in the same way.
RECURSIVE getAccount(_, _)
getAccount(as, s) ==
    IF s \in Range(as) THEN as
    ELSE Append(IF Len(s) > 1 THEN getAccount(as, DropLast(s)) ELSE as, s)

\* The place in entries of the last price or transaction appended.
LastEntry(kind) ==
    CHOOSE k \in DOMAIN entries :
        /\ entries[k].kind = kind
        /\ \A m \in DOMAIN entries : entries[m].kind = kind => m <= k

\* A line 'commodity value': lastLine is set before the value is read.
CommodityLine ==
    /\ ReadsLine /\ commentErr = ""
    /\ \E s \in CommodityTexts :
          /\ Lex(s)
          /\ lines' = Append(lines,
                 [kind |-> "commodity", date |-> 0, ok |-> lexErr' = "",
                  entity |-> IF lexErr' = "" THEN <<"currency", lexValue'.Currency>>
                             ELSE <<>>])
    /\ lastLine' = "lineCommodity"
    /\ UNCHANGED <<lastTime, entries, fatal, rendered, lexed>>
    /\ UNCHANGED <<ledgerVars, getLocals, postLocals, scanLocals, regLocals, balLocals,
                   printed, commentLocals, opened>>

\* A line 'account name'.
AccountLine ==
    /\ ReadsLine /\ commentErr = ""
    /\ \E s \in AccountTexts :
          /\ lines' = Append(lines,
                 [kind |-> "account", date |-> 0, ok |-> s \notin Range(jAccounts),
                  entity |-> <<"account", s>>])
          /\ jAccounts' = getAccount(jAccounts, s)
          /\ fatal' = (s \in Range(jAccounts))
    /\ lastLine' = "lineAccount"
    /\ UNCHANGED <<lastTime, entries, comments, commentErr>>
    /\ UNCHANGED <<ledgerVars, getLocals, lexLocals, postLocals, scanLocals, regLocals,
                   balLocals, printed, opened>>

\* The comment of the line now read is attached to the entity e.
Attach(e) ==
    /\ comments' = Append(comments, [entity |-> e, comment |-> Len(lines) + 1])
    /\ UNCHANGED commentErr

\* An indented line that begins with ';', '#' or '*'.
CommentLine ==
    /\ ReadsLine /\ commentErr = ""
    /\ lines' = Append(lines, [kind |-> "comment", date |-> 0, ok |-> TRUE])
    /\ CASE lastLine = "lineAccount" ->
                Attach(<<"account", jAccounts[Len(jAccounts)]>>)
         [] lastLine = "lineCommodity" ->
                IF currencies = <<>>
                THEN commentErr' = "index out of range" /\ UNCHANGED comments
                ELSE Attach(<<"currency", Len(currencies)>>)
         [] lastLine = "linePrice" -> Attach(<<"price", LastEntry("P")>>)
         [] lastLine = "lineTransaction" -> Attach(<<"transaction", LastEntry("transaction")>>)
         [] OTHER -> UNCHANGED <<comments, commentErr>>
    /\ UNCHANGED <<lastTime, lastLine, entries, fatal, jAccounts>>
    /\ UNCHANGED <<ledgerVars, getLocals, lexLocals, postLocals, scanLocals, regLocals,
                   balLocals, printed, opened>>

NextComments ==
    \/ PriceLine
    \/ TransactionLine
    \/ CommodityLine
    \/ AccountLine
    \/ CommentLine

SpecComments == Init /\ [][NextComments]_vars

-----------------------------------------------------------------------------
(* The driver's Open *)

\* readJournal opens a journal that is not there: the error of s.NewFile is
\* dropped, and no file is open.
OpenNoJournal ==
    /\ fs = <<>>
    /\ \E d \in FileSystems :
          /\ fs' = [name \in FileNames \ {Journal} |-> d[name]]
          /\ files' = NewFile(fs', <<>>, Journal)
    /\ UNCHANGED <<emitted, scanErr, pending>>
    /\ UNCHANGED <<ledgerVars, getLocals, readLocals, lexLocals, postLocals, moreLocals>>

\* driver.Open, once readJournal has returned, at the end of the files or at
\* an error of the scanner: what readJournal returns is dropped.
DriverOpen ==
    /\ scanErr # "" /\ opened = <<>>
    /\ opened' = [conn |-> TRUE, err |-> ""]
    /\ UNCHANGED <<ledgerVars, getLocals, readLocals, lexLocals, postLocals, scanLocals,
                   regLocals, balLocals, printed, commentLocals>>

NextOpen ==
    \/ OpenJournal
    \/ OpenNoJournal
    \/ ReadLine
    \/ IncludeFile
    \/ DriverOpen

SpecOpen == Init /\ [][NextOpen]_vars

-----------------------------------------------------------------------------
(* Properties of a completed ledger *)

Filled == pc = "returned" /\ err = ""

Currencies == {Anon} \cup {Cur(k, n) : k \in Ledgers, n \in CurNames}

\* The amount of a value in currency c.
In(v, c) == IF v.Currency = c THEN v.Amount ELSE 0

\* SplitPrices[s] if the split has a price, otherwise its value.
Effective(l, s) == IF HasSplitPrice(l, s) THEN ledger[l].SplitPrices[s] ELSE split[s].Value

RECURSIVE SumEffective(_, _, _, _)
SumEffective(l, S, n, c) ==
    IF n > Len(S) THEN 0 ELSE In(Effective(l, S[n]), c) + SumEffective(l, S, n + 1, c)

\* The currencies in which transaction t does not sum to zero.
Residual(l, t) == {c \in Currencies : SumEffective(l, transaction[t].Splits, 1, c) # 0}

TransferSplitsOf(t) == {n \in DOMAIN transaction[t].Splits :
                           split[transaction[t].Splits[n]].Account = TransferAccount}

C2_RunningBalance ==
    Filled =>
        \A a \in Range(ledger[cur].Accounts) :
            \A n \in DOMAIN account[a].Splits :
                LET s    == account[a].Splits[n]
                    prev == IF n = 1 THEN <<>> ELSE split[account[a].Splits[n - 1]].Balance
                IN  \A c \in Currencies :
                        AmountIn(split[s].Balance, c) = AmountIn(prev, c) + In(split[s].Value, c)

\* A completed ledger where an account holds two splits, the second with a
\* balance that carries the first, one of them with an inferred value, and
\* where TransferAccount has splits.
C2_Witness ==
    /\ Filled
    /\ account[TransferAccount].Splits # <<>>
    /\ \E a \in Range(ledger[cur].Accounts) \ {TransferAccount} :
           /\ Len(account[a].Splits) = 2
           /\ split[account[a].Splits[1]].Balance # <<>>
           /\ split[account[a].Splits[2]].Balance # split[account[a].Splits[1]].Balance
    /\ \E n \in DOMAIN journal[1].Splits : journal[1].Splits[n].Value = NoValue

\* C3: after Fill returns without error, the balance of every split that has
\* an assertion holds the asserted amount in the asserted currency.
C3_Assertions ==
    Filled =>
        \A s \in DOMAIN ledger[cur].Assertions :
            AmountIn(split[s].Balance, ledger[cur].Assertions[s].Currency)
                = ledger[cur].Assertions[s].Amount

\* A completed ledger with an assertion of a non-zero amount on a split that
\* came with a value, in an account that held something before it.
C3_Witness ==
    /\ Filled
    /\ \E s \in DOMAIN ledger[cur].Assertions :
           /\ ledger[cur].Assertions[s].Amount # 0
           /\ \E a \in Range(ledger[cur].Accounts) :
                  /\ Len(account[a].Splits) = 2
                  /\ account[a].Splits[2] = s
                  /\ split[account[a].Splits[1]].Balance # <<>>
           /\ \E n \in DOMAIN journal[1].Splits :
                  /\ transaction[ledger[cur].Transactions[1]].Splits[n] = s
                  /\ journal[1].Splits[n].Value # NoValue

\* C4 as stated: no step of the loop clears the deadlock flag without
\* advancing the transaction cursor or the split cursor of an account.
C4_ClearsOnlyWithCursor ==
    [][(pc \in {"trans", "split"} /\ deadlock /\ ~deadlock')
          => \/ iTransactions' > iTransactions
             \/ \E n \in DOMAIN iAccounts : iAccounts'[n] > iAccounts[n]]_vars

InLoop == pc \in {"loop", "trans", "split"}

RECURSIVE SplitsLeft(_)
SplitsLeft(n) ==
    IF n = 0 THEN 0
    ELSE Len(account[ledger[cur].Accounts[n]].Splits) - iAccounts[n] + SplitsLeft(n - 1)

\* What the cursors have left to go over.
Left == Len(ledger[cur].Transactions) - iTransactions + SplitsLeft(Len(iAccounts))

\* How far a turn of the loop is from its end: the transactions come first,
\* then the accounts in their order.
Ahead == CASE pc = "trans" -> Len(iAccounts) + 1
           [] pc = "split" -> Len(iAccounts) + 1 - i
           [] OTHER        -> 0

\* A measure of the loop: what the cursors have left, then whether the turn
\* has cleared the deadlock flag, then how far the turn is from its end.
Measure ==
    Left * 2 * (Len(iAccounts) + 2)
        + (IF deadlock THEN 0 ELSE Len(iAccounts) + 2) + Ahead

\* C4 as amended: a step of the loop that clears the deadlock flag advances
\* the transaction cursor or the split cursor of an account, or returns an
\* error from Fill; and the loop comes to its end on every input: each of its
\* steps leaves it or lowers a measure that is never negative, so that a turn
\* that advanced no cursor is the last.
C4_Terminates ==
    [][InLoop =>
          /\ (deadlock /\ ~deadlock')
                 => \/ iTransactions' > iTransactions
                    \/ \E n \in DOMAIN iAccounts : iAccounts'[n] > iAccounts[n]
                    \/ pc' = "returned" /\ err' # ""
          /\ InLoop' => Measure' < Measure /\ Measure' >= 0]_vars

\* The loop has ended with every cursor at its end, after the cursor of an
\* account went over two splits, one of them valued by the loop.
C4_Witness ==
    /\ pc = "prices"
    /\ iTransactions = Len(ledger[cur].Transactions)
    /\ \E n \in DOMAIN iAccounts : iAccounts[n] = 2
    /\ \E n \in DOMAIN journal[1].Splits : journal[1].Splits[n].Value = NoValue

\* C5: a second Fill of a ledger Fill has completed returns without error and
\* leaves the number of prices, of splits of every transaction and of splits
\* of TransferAccount as the first Fill left them.
C5_Idempotent ==
    (phase = "refill" /\ pc \in {"returned", "panic"}) =>
        /\ pc = "returned" /\ err = ""
        /\ Len(ledger[1].Prices) = Len(first.Prices)
        /\ SplitCounts(1) = first.Splits
        /\ Len(account[TransferAccount].Splits) = Len(first.Transfer)

\* The splits of transaction t, other than those of TransferAccount, whose
\* time is not the transaction's.
Shifted(t) ==
    {s \in Range(transaction[t].Splits) :
        /\ split[s].Account # TransferAccount
        /\ TimeOf(transaction, split, s) # transaction[t].Time}

\* The splits of TransferAccount bound to transaction t.
OnTransfer(t) ==
    {s \in Range(account[TransferAccount].Splits) : split[s].Transaction = t}

Negated(v) == Val(0 - v.Amount, v.Currency)

\* C6: after Fill of a ledger as parsed, the splits of TransferAccount bound
\* to a transaction are, for each split whose time is not the transaction's,
\* one at the split's time of the negated value and one at the transaction's
\* time of the value, and no other: none when no split has another time.
C6_TransferPairs ==
    (Filled /\ phase \in {"first", "second"}) =>
        \A t \in Range(ledger[cur].Transactions) :
            /\ Cardinality(OnTransfer(t)) = 2 * Cardinality(Shifted(t))
            /\ \A w \in Times : \A x \in OnTransfer(t) \cup Shifted(t) :
                   \A v \in {split[x].Value, Negated(split[x].Value)} :
                       Cardinality({y \in OnTransfer(t) :
                                       /\ TimeOf(transaction, split, y) = w
                                       /\ split[y].Value = v})
                       = Cardinality({y \in Shifted(t) :
                                         /\ TimeOf(transaction, split, y) = w
                                         /\ Negated(split[y].Value) = v})
                         + Cardinality({y \in Shifted(t) :
                                           /\ transaction[t].Time = w
                                           /\ split[y].Value = v})

\* A completed ledger with a transaction of one split at another time, of an
\* amount that is not zero, and one split at the transaction's time.
C6_Witness ==
    /\ Filled /\ phase = "first"
    /\ \E t \in Range(ledger[cur].Transactions) :
           /\ Cardinality(Shifted(t)) = 1
           /\ \E s \in Shifted(t) : split[s].Value.Amount # 0
           /\ Cardinality(OnTransfer(t)) = 2
           /\ Len(transaction[t].Splits) = 4

\* C7: Fill of a second ledger parsed from the same journal leaves the same
\* prices, in the same order, as Fill of the first.
C7_Deterministic ==
    (Filled /\ phase = "second") => PricesView(2) = first.Prices

\* C8: Fill of a second ledger parsed from the same journal leaves on
\* TransferAccount the splits and balances that Fill of the first ledger, run
\* alone, left there.
C8_NothingShared ==
    (Filled /\ phase = "second") => TransferView = first.Transfer

\* C9: no step of Convert changes the ledger: its prices, accounts,
\* transactions and splits are after the step what they were before it.
C9_ReadOnly ==
    [][(pc \in {"convert", "return"}) => (heap' = heap)]_vars

\* C10: Convert comes to its end by returning, for every table of prices: its
\* calls of itself never outgrow the stack.
C10_Terminates ==
    ~(pc = "panic" /\ result.err = "stack overflow")

-----------------------------------------------------------------------------
(* Properties of Convert *)

\* The prices of the table ps from currency from to currency to.
PairPrices(ps, from, to) ==
    {n \in 1..Len(ps) : ps[n].Currency = from /\ ps[n].Value.Currency = to}

Latest(S) == CHOOSE n \in S : \A m \in S : m <= n
Earliest(S) == CHOOSE n \in S : \A m \in S : n <= m

\* The prices of a pair at, before and after the time w.
At(ps, P, w) == {n \in P : ps[n].Time = w}
Earlier(ps, P, w) == {n \in P : ps[n].Time < w}
Later(ps, P, w) == {n \in P : ps[n].Time > w}

\* The rate of a pair P (not empty) of the table ps at the time w.
Rate(ps, P, w) ==
    IF At(ps, P, w) # {} THEN ps[Earliest(At(ps, P, w))].Value.Amount
    ELSE IF Earlier(ps, P, w) = {} THEN ps[Earliest(Later(ps, P, w))].Value.Amount
    ELSE IF Later(ps, P, w) = {} THEN ps[Latest(Earlier(ps, P, w))].Value.Amount
    ELSE LET prev == ps[Latest(Earlier(ps, P, w))]
             next == ps[Earliest(Later(ps, P, w))]
         IN  prev.Value.Amount
               + Quo((next.Value.Amount - prev.Value.Amount) * (w - prev.Time),
                     next.Time - prev.Time)

\* x lies between y and z.
Between(x, y, z) == (y <= x /\ x <= z) \/ (z <= x /\ x <= y)

\* The pair of the call of Convert on top of the stack.
TopPair ==
    LET f == stack[Len(stack)]
    IN  PairPrices(ledger[cur].Prices, f.v.Currency, f.currency)

\* C11: a call of Convert between two currencies that have prices of their
\* own in the table (sorted by time) returns, without error, the amount
\* rate * v.Amount / U in the target currency, where rate is the price at
\* when if there is one, otherwise the latest price before when if there is
\* no price after it, the earliest price after when if there is none before
\* it, and otherwise the value at when of the line through both, which lies
\* between the two prices.
C11_Rate ==
    [][(pc = "convert" /\ stack[Len(stack)].v.Currency # stack[Len(stack)].currency
                       /\ TopPair # {})
       => LET f  == stack[Len(stack)]
              ps == ledger[cur].Prices
              r  == Rate(ps, TopPair, when)
          IN  /\ pc' = "return"
              /\ result' = [Value |-> Val(Div(r * f.v.Amount, U), f.currency), err |-> ""]
              /\ (Earlier(ps, TopPair, when) # {} /\ Later(ps, TopPair, when) # {})
                    => Between(r, ps[Latest(Earlier(ps, TopPair, when))].Value.Amount,
                                  ps[Earliest(Later(ps, TopPair, when))].Value.Amount)
      ]_vars

\* A call has returned a value taken between two different prices of the pair.
C11_Witness ==
    /\ pc = "return" /\ stack # <<>> /\ stack[Len(stack)].stage = "call"
    /\ result.err = ""
    /\ LET ps == ledger[cur].Prices IN
        /\ TopPair # {}
        /\ At(ps, TopPair, when) = {}
        /\ Earlier(ps, TopPair, when) # {} /\ Later(ps, TopPair, when) # {}
        /\ ps[Latest(Earlier(ps, TopPair, when))].Value.Amount
             # ps[Earliest(Later(ps, TopPair, when))].Value.Amount
        /\ result.Value.Amount # 0

-----------------------------------------------------------------------------
(* Properties of GetBalance *)

\* The splits of account a (by their place in a.Splits) not after the time w.
NotAfter(a, w) ==
    {n \in 1..Len(account[a].Splits) :
        TimeOf(transaction, split, account[a].Splits[n]) <= w}

\* C12: GetBalance(account, when) returns, for the zero time, the balance of
\* the last split of the account; otherwise the balance of the latest split
\* whose time is not after when, and the empty balance when the account has
\* no such split.
C12_GetBalance ==
    asked # <<>> =>
        LET S == account[asked.account].Splits
            N == NotAfter(asked.account, asked.when)
        IN  gotBalance = IF S = <<>> THEN <<>>
                      ELSE IF asked.when = 0 THEN split[S[Len(S)]].Balance
                      ELSE IF N = {} THEN <<>>
                      ELSE split[S[Latest(N)]].Balance

-----------------------------------------------------------------------------
(* Properties of readJournal *)

\* The lines before the n-th that are of its kind and have a date.
SameKindBefore(n) ==
    {m \in 1..(n - 1) : lines[m].kind = lines[n].kind /\ lines[m].date # BadDate}

\* The n-th line has a date earlier than the previous line of its kind.
OutOfOrder(n) ==
    /\ lines[n].date # BadDate
    /\ SameKindBefore(n) # {}
    /\ lines[n].date < lines[Latest(SameKindBefore(n))].date

\* C13: readJournal ends with 'not chronologically sorted' exactly when the
\* line it has just read, a price or a transaction, has a date earlier than
\* the previous line of the same kind; the dates of the lines of the other
\* kind do not count.
C13_PerKind ==
    lines # <<>> => (fatal <=> OutOfOrder(Len(lines)))

-----------------------------------------------------------------------------
(* Properties of getValue *)

\* The digits of a number, and its amount in units of 1/U if its last k
\* digits are decimals.
DigitsOf(number) ==
    LET ds == SelectSeq(number, IsDigit) IN [n \in 1..Len(ds) |-> DigitOf(ds[n])]
AmountOf(number, k) == DigitsOf(number) \o Zeros(8 - k)

AmbiguousMark == "syntax error: punctuation can be a thousand or a decimal"

\* C14: a number with thousand signs that getValue has accepted as the first
\* value of its currency, the signs inferred within the token, is accepted
\* again, with the same amount and either sign, as the next value of that
\* currency, the signs already learned: '1.234,56 EUR' and then
\* '-1.234,56 EUR'.
C14_LearnedThousands ==
    [][(lexed = 1 /\ lexErr = "" /\ lexed' = 2
          /\ \E n \in GroupedNumbers, s1, s2 \in Signs :
                /\ text = Token("suffixSpace", EUR, s1 \o n)
                /\ text' = Token("suffixSpace", EUR, s2 \o n))
       => (/\ lexErr' = ""
           /\ lexValue'.Amount.digits = lexValue.Amount.digits
           /\ lexValue'.Currency = lexValue.Currency
           /\ currencies' = currencies)]_vars

\* The default currency has no thousand sign and no decimal sign yet.
NothingLearned ==
    defaultCurrency = <<>>
      \/ (defaultCurrency[1].Thousand = "" /\ defaultCurrency[1].Decimal = "")

\* C15: for a currency with no thousand or decimal sign learned yet, a number
\* with a single mark after at most 3 digits and exactly 3 digits after it
\* is rejected as ambiguous; with 1, 2 or 4 digits after the mark, or with
\* the mark after more than 3 digits, the mark is taken as the decimal sign
\* and the number is accepted with that many decimals.
C15_SingleMark ==
    [][\A scheme \in {"count", "zeros"}, lead \in 1..MaxLead, mark \in Marks,
          k \in 1..MaxDecimals :
          (NothingLearned /\ lexed' = lexed + 1
              /\ text' = SingleNumber(scheme, lead, mark, k))
          => IF lead <= 3 /\ k = 3
             THEN lexErr' = AmbiguousMark
             ELSE /\ lexErr' = ""
                  /\ lexValue'.Currency = 0
                  /\ defaultCurrency'[1].Decimal = mark
                  /\ defaultCurrency'[1].Thousand = ""
                  /\ lexValue'.Amount.digits
                       = AmountOf(SingleNumber(scheme, lead, mark, k), k)]_vars

\* A number with one mark has been rejected as ambiguous, and then a number
\* with one mark has been accepted, its mark the decimal sign of a currency
\* that had none.
C15_Witness ==
    /\ lexed = 2 /\ lexErr = ""
    /\ text = SingleNumber("zeros", 4, ".", 3)
    /\ defaultCurrency[1].Decimal = "." /\ defaultCurrency[1].Precision = 0
    /\ lexValue.Amount.digits = AmountOf(text, 3)

\* What the flags and the precision of the currencies show of a value.
Convention(c) == <<c.PrintBefore, c.WithoutSpace, c.Precision>>
Conventions(cs, dc) ==
    [ptr \in (IF dc = <<>> THEN {} ELSE {0}) \cup (1..Len(cs)) |->
        Convention(CurrencyAt(cs, dc, ptr))]

\* k decimals of the number LayoutNumber(k1): its own, then zeros.
Shown(k, k1) ==
    IF k = 0 THEN <<"1">>
    ELSE <<"1", ".">> \o [n \in 1..k |-> IF n <= k1 THEN DigitAt("count", n + 1) ELSE "0"]

\* The layout a currency shows its values in.
LayoutOf(c) ==
    IF c.PrintBefore THEN (IF c.WithoutSpace THEN "prefix" ELSE "prefixSpace")
    ELSE (IF c.WithoutSpace THEN "suffix" ELSE "suffixSpace")

\* C16: a call of getValue changes neither the flag of the name before or
\* after the amount, nor the flag of the space, nor the precision of a
\* currency the ledger already has; the value of a later token of another
\* layout and another number of decimals keeps all the digits of the token,
\* and String shows it in the layout and with the precision the currency
\* has had from its first token.
C16_Convention ==
    [][/\ \A ptr \in CurrencyPtrs :
             Conventions(currencies', defaultCurrency')[ptr]
               = Conventions(currencies, defaultCurrency)[ptr]
       /\ \A l0 \in Layouts, k0 \in 0..MaxDecimals, l1 \in Layouts, k1 \in 0..MaxDecimals :
             (lexed = 1 /\ lexed' = 2 /\ text = Token(l0, Dollar, LayoutNumber(k0))
                 /\ text' = Token(l1, Dollar, LayoutNumber(k1)) /\ lexErr' = "")
             => /\ lexValue'.Amount.digits = AmountOf(LayoutNumber(k1), k1)
                /\ LayoutOf(currencies'[1]) = l0
                /\ currencies'[1].Precision = (IF lexErr = "" THEN k0 ELSE 0)
                /\ getString(lexValue'.Amount, currencies'[1], FALSE)
                     = Token(l0, Dollar, Shown(currencies'[1].Precision, k1))]_vars

\* '$1.23' and then '1.2345 $': the amount is 123450000, shown as '$1.23'.
C16_Witness ==
    /\ lexed = 2 /\ lexErr = ""
    /\ text = <<"1", ".", "2", "3", "4", "5", " ", "$">>
    /\ lexValue.Amount = [neg |-> FALSE, digits |-> <<1, 2, 3, 4, 5, 0, 0, 0, 0>>]
    /\ currencies # <<>>
    /\ getString(lexValue.Amount, currencies[1], FALSE) = <<"$", "1", ".", "2", "3">>

\* C17: the full text of an amount in a currency of the ledger is lexed
\* without error to the same amount in the same currency.
C17_RoundTrip ==
    rendered # <<>> => (lexErr = "" /\ lexValue = rendered[1])

-----------------------------------------------------------------------------
(* Properties of the lines of the postings *)

LastRead == lines[Len(lines)]
\* The values and prices of the model getValue has no error for.
GoodValues == PostingValues \ {<<"1", ".", "0", "0", "0">>}
GoodPrices == PostingPrices \ {<<"@">>}
NameOf(v) == IF v.Currency = Fresh THEN <<>>
             ELSE CurrencyAt(currencies, defaultCurrency, v.Currency).Name

\* C19: when the line of a posting ends with '= $50' (after a value and a price
\* that are well formed, or after none), the posting is appended as a split,
\* ledger.Assertions has the value 50 of the currency '$' for it, and the value
\* of the split is the one of the text before the '=': none if there is no text
\* there, otherwise a value of the currency X.
C19_Assertion ==
    (/\ lines # <<>> /\ LastRead.kind = "split" /\ LastRead.assertion # <<>>
     /\ LastRead.value \in GoodValues /\ LastRead.price \in GoodPrices)
    => /\ LastRead.ok /\ jSplits # <<>>
       /\ Len(jSplits) \in DOMAIN jAssertions
       /\ jAssertions[Len(jSplits)].Amount = Signed(TimesTen(<<5, 0>>, 8), FALSE)
       /\ NameOf(jAssertions[Len(jSplits)]) = <<"$">>
       /\ IF LastRead.value = <<>>
          THEN jSplits[Len(jSplits)].Value = NoLexValue
          ELSE NameOf(jSplits[Len(jSplits)].Value) = <<"X">>

-----------------------------------------------------------------------------
(* Properties of Export *)

\* The full name of an account: TransferAccount and the account that the line
\* 'account Assets:Transfer account' makes have the same.
AccountName(a) ==
    IF a \in {TransferAccount, ExportedTransfer} THEN "Assets:Transfer account"
    ELSE IF a = ExportedAssets THEN "Assets"
    ELSE CASE a[2] = 1 -> "P" [] a[2] = 2 -> "Q" [] a[2] = 3 -> "P:X"

AccountNames(l) == [n \in 1..Len(ledger[l].Accounts) |-> AccountName(ledger[l].Accounts[n])]
SplitView(s) ==
    [Account |-> AccountName(split[s].Account), Value |-> ValueView(split[s].Value),
     Time |-> TimeOf(transaction, split, s)]
TransactionsView(l) ==
    [n \in 1..Len(ledger[l].Transactions) |->
        LET t == transaction[ledger[l].Transactions[n]] IN
        [Time |-> t.Time, Splits |-> [m \in 1..Len(t.Splits) |-> SplitView(t.Splits[m])]]]
SplitPricesView(l) ==
    {[Split |-> SplitView(s), Price |-> ValueView(ledger[l].SplitPrices[s])] :
        s \in DOMAIN ledger[l].SplitPrices}
SeqBag(s) == [x \in Range(s) |-> Cardinality({n \in DOMAIN s : s[n] = x})]

Refilled == phase = "exported" /\ pc \in {"returned", "panic"}

\* C18: when the export of a filled ledger has been opened and filled, Fill has
\* returned no error, and the second ledger has the accounts of the first (by
\* their names), its transactions with their splits (account, value and
\* time), its split prices, and the same prices, each as many times.
C18_RoundTrip ==
    Refilled
    => /\ err = ""
       /\ SeqBag(AccountNames(2)) = SeqBag(AccountNames(1))
       /\ TransactionsView(2) = TransactionsView(1)
       /\ SplitPricesView(2) = SplitPricesView(1)
       /\ SeqBag(PricesView(2)) = SeqBag(PricesView(1))

-----------------------------------------------------------------------------
(* Properties of the scanner *)

\* The lines of a file from its n-th on, each include followed by the lines
\* of the file it names, when that file is there; whole: up to the end of the
\* file. The lines end at a line too long, and where open files are open.
RECURSIVE DepthFirst(_, _, _, _)
DepthFirst(d, name, n, open) ==
    IF n > Len(d[name]) THEN [lines |-> <<>>, whole |-> TRUE]
    ELSE IF d[name][n].kind = "long" THEN [lines |-> <<>>, whole |-> FALSE]
    ELSE LET this == <<[Filename |-> name, LineNum |-> n, Text |-> d[name][n]]>>
             to   == IF IsAbsolute(d[name][n].file) THEN d[name][n].file
                     ELSE Dir(name) \o d[name][n].file
             in   == d[name][n].kind = "include" /\ to \in DOMAIN d
             sub  == IF ~in THEN [lines |-> <<>>, whole |-> TRUE]
                     ELSE IF open = MaxOpen THEN [lines |-> <<>>, whole |-> FALSE]
                     ELSE DepthFirst(d, to, 1, open + 1)
             rest == IF sub.whole THEN DepthFirst(d, name, n + 1, open)
                     ELSE [lines |-> <<>>, whole |-> FALSE]
         IN  [lines |-> this \o sub.lines \o rest.lines, whole |-> rest.whole]

IsPrefix(s, t) == Len(s) <= Len(t) /\ s = SubSeq(t, 1, Len(s))

\* C20: the lines the scanner has returned are, in this order, the first of
\* the lines of the journal in which each include is followed by the lines of
\* the file it names, each with the name of its file and its number in it
\* from 1; the scanner returns EOF when no file is left open and only then,
\* and by then it has returned all these lines.
C20_DepthFirst ==
    fs # <<>>
    => /\ IsPrefix(emitted, DepthFirst(fs, Journal, 1, 1).lines)
       /\ (scanErr = "EOF") <=> (files = <<>>)
       /\ scanErr = "EOF" => /\ DepthFirst(fs, Journal, 1, 1).whole
                             /\ emitted = DepthFirst(fs, Journal, 1, 1).lines

\* The scanner has come to the end of a journal after the lines of a file of
\* a file the journal includes, and after a line of the journal that follows
\* the include.
C20_Witness ==
    /\ scanErr = "EOF"
    /\ \E x, y, z \in DOMAIN emitted :
          /\ x < y /\ y < z
          /\ emitted[x].Filename = FileDB /\ emitted[x].Text.kind = "include"
          /\ emitted[y].Filename = FileDC
          /\ emitted[z].Filename = Journal /\ emitted[z].LineNum > 1

-----------------------------------------------------------------------------
(* Properties of the steps of Fill *)

\* The transaction the transaction step is at.
AtTransaction == pc = "trans" /\ iTransactions < Len(ledger[cur].Transactions)
TransactionAt == ledger[cur].Transactions[iTransactions + 1]
AllValued(t) == \A s \in Range(transaction[t].Splits) : split[s].Value.Currency # Nil
ResidualIn(t, c) == SumEffective(cur, transaction[t].Splits, 1, c)
PriceOf(time, c0, r0, c1, r1) ==
    [Time |-> time, Currency |-> c0, Value |-> Val(Quo((0 - U) * r1, r0), c1),
     Comment |-> "automatic"]

AtSplit == pc = "split" /\ iAccounts[i] < Len(account[ledger[cur].Accounts[i]].Splits)
SplitAt == account[ledger[cur].Accounts[i]].Splits[iAccounts[i] + 1]
WrongAssertion == pc' = "returned" /\ err' = "wrong assertion"

\* C26: the account step, at a split that has a value and an assertion of the
\* amount a in the currency c, returns the error of a wrong assertion exactly
\* when the running balance of the account with the value of the split added
\* holds in c another amount than a, a currency it does not hold counting
\* for 0.
C26_AssertionChecked ==
    [][(AtSplit /\ split[SplitAt].Value # ZeroValue /\ AssertionOf(cur, SplitAt) # ZeroValue)
       => (WrongAssertion
             <=> AmountIn(Add(b, split[SplitAt].Value), AssertionOf(cur, SplitAt).Currency)
                    # AssertionOf(cur, SplitAt).Amount)]_vars

\* C27: the account step, at a split without value that has an assertion of
\* the amount a in the currency c, gives the split the value of a less what
\* the running balance of the account holds in c (0 when it holds nothing in
\* c), in the currency c, and does not return the error of a wrong assertion.
C27_InferredFromAssertion ==
    [][(AtSplit /\ split[SplitAt].Value = ZeroValue /\ AssertionOf(cur, SplitAt) # ZeroValue)
       => /\ ~WrongAssertion
          /\ split'[SplitAt].Value =
                Val(AssertionOf(cur, SplitAt).Amount
                        - AmountIn(b, AssertionOf(cur, SplitAt).Currency),
                    AssertionOf(cur, SplitAt).Currency)]_vars

\* C29: every price that Fill has added to the ledger with the comment
\* "automatic", from a transaction of two currencies or from the price of a
\* split, has an amount greater than zero.
C29_PositivePrices ==
    \A k \in DOMAIN ledger[cur].Prices :
        ledger[cur].Prices[k].Comment = "automatic"
            => ledger[cur].Prices[k].Value.Amount > 0

\* C30: Fill never aborts: it divides by no amount of zero and reads no
\* transaction past the end of the list, so that every failure is the error
\* that it returns.
C30_NeverAborts == pc # "panic"


-----------------------------------------------------------------------------
(* Properties of Register *)

\* C22: a call of Register with a nil driver, or with a name registered
\* before, panics and leaves the map of drivers as it was; any other call adds
\* its driver under its name; and no call changes the driver of a name that
\* has one, so that every name keeps the first driver registered under it.
C22_FirstRegistered ==
    [][/\ \A n \in DOMAIN drivers : n \in DOMAIN drivers' /\ drivers'[n] = drivers[n]
       /\ IF registered'.driver = NilDriver \/ registered'.name \in DOMAIN drivers
          THEN registered'.panic # "" /\ drivers' = drivers
          ELSE /\ registered'.panic = ""
               /\ DOMAIN drivers' = DOMAIN drivers \cup {registered'.name}
               /\ drivers'[registered'.name] = registered'.driver]_regLocals

C22_Witness ==
    /\ registered # <<>>
    /\ registered.panic = "accounting: Register called twice for driver"
    /\ registered.driver # NilDriver
    /\ drivers[registered.name] # registered.driver
    /\ Cardinality(DOMAIN drivers) = 3


-----------------------------------------------------------------------------
(* Properties of the methods of Balance *)

\* C23: a Balance that was empty and that only Add, Sub, AddBalance,
\* SubBalance and Dup have changed has at most one entry for a currency and
\* no entry of amount zero, and what it holds in each currency is what was
\* added in that currency less what was subtracted.
C23_Canonical ==
    /\ \A x, y \in DOMAIN held : x # y => held[x].Currency # held[y].Currency
    /\ \A x \in DOMAIN held : held[x].Amount # 0
    /\ \A c \in BalanceCurrencies : AmountIn(held, c) = summed[c]

\* A Sub has taken away all that the Balance held in one of three currencies.
C23_Witness ==
    /\ called # <<>>
    /\ called[1] = "Sub"
    /\ called[2][1].Amount = MaxHeld
    /\ summed[called[2][1].Currency] = 0
    /\ Len(held) = 2


-----------------------------------------------------------------------------
(* Properties of Value.String *)

\* The digits of n in groups of three counted from the right, with the
\* separator between the groups when there is one.
RECURSIVE GroupedFromRight(_, _)
GroupedFromRight(n, thousand) ==
    IF n < 1000 THEN DigitsText(IF n = 0 THEN <<0>> ELSE NatDigits(n))
    ELSE GroupedFromRight(n \div 1000, thousand)
           \o (IF thousand = "" THEN <<>> ELSE <<thousand>>)
           \o DigitsText(Zeros(3 - Len(NatDigits(n % 1000))) \o NatDigits(n % 1000))

\* The first precision decimals of fraction hundred millionths, without
\* rounding.
Truncated(fraction, precision) ==
    LET kept == NatDigits(fraction \div Power10(8 - precision)) IN
    DigitsText(Zeros(precision - Len(kept)) \o kept)

\* C25: Value.String writes the name of a currency printed before, then the
\* minus sign of a negative amount, then the units in groups of three digits
\* counted from the right, with the Thousand separator between the groups,
\* then, for a precision greater than zero, the Decimal separator ("." when
\* it is empty) and exactly Precision decimals, the amount truncated towards
\* zero and never rounded, then the name of a currency printed after.
C25_String ==
    printed # <<>> =>
        LET c == printed.Currency IN
        printed.string =
            (IF c.PrintBefore
             THEN c.Name \o (IF c.WithoutSpace THEN <<>> ELSE <<" ">>) ELSE <<>>)
            \o (IF printed.neg THEN <<"-">> ELSE <<>>)
            \o GroupedFromRight(printed.units, c.Thousand)
            \o (IF c.Precision = 0 THEN <<>>
                ELSE <<IF c.Decimal = "" THEN "." ELSE c.Decimal>>
                       \o Truncated(printed.fraction, c.Precision))
            \o (IF c.PrintBefore THEN <<>>
                ELSE (IF c.WithoutSpace \/ c.Name = <<>> THEN <<>> ELSE <<" ">>) \o c.Name)

\* -1,234,567.999 is written with two decimals, in dollars, with "'" for the
\* decimals: $ -1,234,567'99.
C25_Witness ==
    /\ printed # <<>>
    /\ printed.string = <<"$", " ", "-", "1", ",", "2", "3", "4", ",", "5", "6", "7", "'", "9", "9">>
    /\ printed.fraction = 99900000


-----------------------------------------------------------------------------
(* Properties of the indented comments *)

\* The last of the lines ls that is not a comment (0: none).
RECURSIVE LastDirective(_)
LastDirective(ls) ==
    IF ls = <<>> THEN 0
    ELSE IF ls[Len(ls)].kind # "comment" THEN Len(ls)
    ELSE LastDirective(DropLast(ls))

\* The entity that the last line that is not a comment has declared: an
\* account, a currency, a price or a transaction (<<>>: none).
Declared ==
    LET k == LastDirective(lines) IN
    IF k = 0 \/ ~lines[k].ok THEN <<>>
    ELSE CASE lines[k].kind \in {"commodity", "account"} -> lines[k].entity
           [] lines[k].kind = "P" ->
                  IF lines[k].date = BadDate THEN <<>> ELSE <<"price", LastEntry("P")>>
           [] lines[k].kind = "transaction" -> <<"transaction", LastEntry("transaction")>>

\* C28: an indented comment is attached to the entity declared by the last
\* line that was not a comment: the account, price or currency of an
\* 'account', 'P' or 'commodity' line, or the transaction of a transaction
\* line, and, for 'commodity', the currency that the line names, also when it
\* was there before or has no symbol; after a line that declared nothing the
\* comment is attached to nothing.
C28_CommentAttached ==
    [][(Len(lines') = Len(lines) + 1 /\ lines'[Len(lines')].kind = "comment")
       => /\ commentErr' = ""
          /\ comments' = IF Declared = <<>> THEN comments
                         ELSE Append(comments, [entity |-> Declared,
                                                comment |-> Len(lines')])]_vars


-----------------------------------------------------------------------------
(* Properties of the driver's Open *)

\* A line read was an include of a file that is not there.
IncludeFailed ==
    \E k \in DOMAIN emitted :
        /\ emitted[k].Text.kind = "include"
        /\ Resolved(<<[filename |-> emitted[k].Filename, lineNum |-> 0]>>,
                    emitted[k].Text.file) \notin DOMAIN fs

\* C21: when the journal or an included file could not be opened, or reading
\* a file has failed, the Open of the driver returns an error and no
\* connection to a ledger.
C21_OpenFails ==
    (opened # <<>> /\ (Journal \notin DOMAIN fs \/ IncludeFailed \/ scanErr = "token too long"))
        => (opened.err # "" /\ ~opened.conn)

====
